---- MODULE Spec2Model ----
(***************************************************************************)
(* Game catalogue service: the standalone Express server (api/server.ts),  *)
(* the Next.js route set (app/api/games, database-backed) and the          *)
(* in-memory variant of app/api/games/[id]/route.ts, over the PostgreSQL   *)
(* schema of README.md and the array of lib/games-data.ts.                  *)
(*                                                                         *)
(* Representation.  A string is a sequence of chunks, every leading or     *)
(* trailing blank being a chunk " " of its own, so that trim() and the     *)
(* length rules are computed.  A JSON object is a record                   *)
(* whose DOMAIN holds exactly the keys that are present: a missing key is  *)
(* JavaScript's undefined, and a table row lacks the columns that are NULL.*)
(* rating is an integer number of hundredths, price of thousandths, one    *)
(* digit finer than the precision the schemas round to.  The clock counts  *)
(* hours.  A release date is a calendar date, written as a TLA+ string.    *)
(***************************************************************************)
EXTENDS Integers, Sequences, FiniteSets, TLC

VARIABLES
    JWT_SECRET,   \* TRUE iff process.env.JWT_SECRET is set
    variant,      \* which app/api/games/[id]/route.ts is deployed
    now,          \* wall clock
    users,        \* table users
    gamesTable,   \* table games
    games,        \* the array exported by lib/games-data.ts
    nextId,       \* number of ids gen_random_uuid() has handed out, plus one
    last,         \* the request handled last, with its response
    regs,         \* register requests, those awaiting their INSERT and those answered
    issued,       \* tokens handed out by generateToken
    checked,      \* the verification done last
    nameIndex,    \* TRUE iff table games carries a unique index on name
    hits,         \* requests the two rate limiters have counted in this window
    listing,      \* list requests between their two queries and their response
    ui            \* app/games/page.tsx: its state and the fetches it awaits

vars == <<JWT_SECRET, variant, now, users, gamesTable, games, nextId, last,
          regs, issued, checked, nameIndex, hits, listing, ui>>

\* ---------------------------------------------------------------- bounds
MaxIds == 1        \* rows the games table is given ids for in Spec
MaxTicks == 1      \* clock ticks after start in Spec
MaxRegs == 2       \* register requests SpecReg lets arrive
MaxTokens == 1     \* tokens SpecTok lets generateToken hand out
MaxClock == 25     \* last hour SpecTok lets the clock reach
MaxRows == 2       \* rows SpecRows and SpecNames let the games table take
MaxListed == 3     \* rows SpecList lets the games table take
MaxOther == 1      \* requests per window SpecLimiters lets the second address send

\* ------------------------------------------------------ program constants
TokenLifetime == 24      \* expiresIn: "24h"
NameMax == 255           \* name: max(255)
GenreMax == 100          \* genre: max(100)
DescriptionMax == 1000   \* description: max(1000)
RatingMax == 1000        \* rating: max(10), in hundredths
PriceMax == 9999990      \* price: max(9999.99), in thousandths
PlatformItemMax == 50    \* platform items: max(50)
PlatformItemsMax == 10   \* platform: max(10) items
PlatformTextMax == 100   \* platform: max(100), lib/validation.ts
DefaultLimit == 10       \* limit when the query names none
LimitMax == 100          \* Math.min(100, ...)
RatingStep == 10         \* precision(1): hundredths per tenth
PriceStep == 10          \* precision(2): thousandths per hundredth

\* ---------------------------------------------------------------- strings
RECURSIVE TrimLeft(_)
TrimLeft(s) == IF s # <<>> /\ Head(s) = " " THEN TrimLeft(Tail(s)) ELSE s

RECURSIVE TrimRight(_)
TrimRight(s) ==
    IF s # <<>> /\ s[Len(s)] = " " THEN TrimRight(SubSeq(s, 1, Len(s) - 1)) ELSE s

\* String.prototype.trim / Joi's .trim() conversion
Trim(s) == TrimRight(TrimLeft(s))

\* String.prototype.toLowerCase on the letters the inputs use
LowerChunk(c) ==
    IF c = "A" THEN "a" ELSE IF c = "B" THEN "b" ELSE IF c = "C" THEN "c"
    ELSE IF c = "D" THEN "d" ELSE IF c = "G" THEN "g" ELSE c

toLowerCase(s) == [i \in DOMAIN s |-> LowerChunk(s[i])]

RECURSIVE StrLen(_)
\* String.prototype.length
StrLen(s) == IF s = <<>> THEN 0 ELSE Len(Head(s)) + StrLen(Tail(s))

Has(obj, key) == key \in DOMAIN obj

\* obj with key set to val (added when it is missing)
With(obj, key, val) ==
    [k \in DOMAIN obj \cup {key} |-> IF k = key THEN val ELSE obj[k]]

\* obj without the keys of drop
Without(obj, drop) == [k \in DOMAIN obj \ drop |-> obj[k]]

\* Math.round(x / step) * step on integers: rounds half up
RoundTo(x, step) == ((2 * x + step) \div (2 * step)) * step

\* ------------------------------------------------------------------ users
\* email of a row of users; the password column holds bcrypt's digest
UserRow(id, email, password, name) ==
    [id |-> id, email |-> email, password |-> password, name |-> name]

\* bcrypt.hash(password, 12); bcrypt.compare takes exactly that password
bcryptHash(password) == [bcrypt |-> password]

UserIds == <<"user-1", "user-2", "user-3", "user-4">>

Alice == UserRow(UserIds[1], <<"a", "@", "b", ".", "com">>, bcryptHash(<<"secret1">>), <<"A">>)

\* ----------------------------------------------------------------- tokens
\* jwt.sign({ userId, email }, JWT_SECRET, { expiresIn: "24h" }) at hour t.
\* key names the key the signature was made with.
generateToken(userId, email, t) ==
    [userId |-> userId, email |-> email, iat |-> t, exp |-> t + TokenLifetime,
     key |-> "JWT_SECRET"]

\* A token signed with another key, and a string that is no JWT at all.
Forged(tok) == [tok EXCEPT !.key = "other"]
Garbage == [userId |-> "", email |-> <<>>, iat |-> 0, exp |-> 0, key |-> "none"]

\* jwt.verify that still takes a token in the hour it expires
jwtVerifyLate(tok, t) == tok.key = "JWT_SECRET" /\ t <= tok.exp

\* jwt.verify(token, JWT_SECRET) at hour t: the signature is checked, then exp
jwtVerify(tok, t) == tok.key = "JWT_SECRET" /\ t < tok.exp

\* the decoded payload jwt.verify hands back
Decoded(tok) == Without(tok, {"key"})

\* ---------------------------------------------------------------- headers
\* Request headers: a record with the key authorization or without it.  The
\* header's value is the list of its space-separated words.
NoHeaders == <<>>
Bearer(tok) == [authorization |-> <<"Bearer", tok>>]
BearerOnly == [authorization |-> <<"Bearer">>]

\* authHeader && authHeader.split(' ')[1]: a list of no or one token
HeaderToken(headers) ==
    IF Has(headers, "authorization") /\ Len(headers.authorization) >= 2
    THEN <<headers.authorization[2]>>
    ELSE <<>>

Denied(status, error) == [ok |-> FALSE, status |-> status, error |-> error, user |-> <<>>]
Allowed(user) == [ok |-> TRUE, status |-> 200, error |-> "", user |-> <<user>>]

\* api/server.ts authenticateToken
authenticateToken(headers, secret, t) ==
    LET token == HeaderToken(headers) IN
    IF token = <<>> THEN Denied(401, "Access token required")
    ELSE IF ~secret THEN Denied(500, "Internal server error")
    ELSE IF ~jwtVerify(token[1], t) THEN Denied(403, "Invalid or expired token")
    ELSE Allowed(Decoded(token[1]))

\* lib/auth.ts verifyToken: null (no user) or the decoded payload
verifyToken(headers, secret, t) ==
    LET token == HeaderToken(headers) IN
    IF token = <<>> \/ ~secret THEN <<>>
    ELSE IF jwtVerify(token[1], t) THEN <<Decoded(token[1])>>
    ELSE <<>>

\* the guard every database-backed Next.js handler opens with
nextAuth(headers, secret, t) ==
    LET user == verifyToken(headers, secret, t) IN
    IF user = <<>> THEN Denied(401, "Access token required") ELSE Allowed(user[1])

\* ------------------------------------------------------------- validation
Invalid == [ok |-> FALSE, value |-> <<>>]
Valid(value) == [ok |-> TRUE, value |-> value]

\* Joi.string().min(1).max(max).required().trim(): the trimmed text, which
\* must be non-empty and at most max long
RequiredText(body, key, max) ==
    /\ Has(body, key)
    /\ Trim(body[key]) # <<>>
    /\ StrLen(Trim(body[key])) <= max

\* Joi.number().min(0).max(max).precision(p).required(): with convert on, the
\* number is rounded to the precision first and the range rules see the result
RequiredNumber(body, key, max, step) ==
    /\ Has(body, key)
    /\ RoundTo(body[key], step) >= 0
    /\ RoundTo(body[key], step) <= max

\* description: Joi.string().max(1000).allow('', null).trim()
OptionalDescription(body) ==
    Has(body, "description") => StrLen(Trim(body.description)) <= DescriptionMax

\* The keys both gameSchemas share, converted: name, genre and description
\* trimmed, rating and price rounded; unknown keys are stripped.
Converted(body) ==
    LET base == [name |-> Trim(body.name), genre |-> Trim(body.genre),
                 rating |-> RoundTo(body.rating, RatingStep),
                 price |-> RoundTo(body.price, PriceStep)]
        d == IF Has(body, "description")
             THEN With(base, "description", Trim(body.description)) ELSE base
    IN  IF Has(body, "releaseDate") THEN With(d, "releaseDate", body.releaseDate) ELSE d

\* gameSchema of api/server.ts: platform is an array of non-empty strings
gameSchemaExpress(body) ==
    IF /\ RequiredText(body, "name", NameMax)
       /\ RequiredText(body, "genre", GenreMax)
       /\ RequiredNumber(body, "rating", RatingMax, RatingStep)
       /\ RequiredNumber(body, "price", PriceMax, PriceStep)
       /\ OptionalDescription(body)
       /\ Has(body, "platform") =>
            /\ Has(body.platform, "array")
            /\ Len(body.platform.array) <= PlatformItemsMax
            /\ \A i \in 1..Len(body.platform.array) :
                 /\ body.platform.array[i] # <<>>
                 /\ StrLen(body.platform.array[i]) <= PlatformItemMax
    THEN Valid(IF Has(body, "platform")
               THEN With(Converted(body), "platform", body.platform)
               ELSE Converted(body))
    ELSE Invalid

\* gameSchema of lib/validation.ts: platform is one string, trimmed
gameSchemaNext(body) ==
    IF /\ RequiredText(body, "name", NameMax)
       /\ RequiredText(body, "genre", GenreMax)
       /\ RequiredNumber(body, "rating", RatingMax, RatingStep)
       /\ RequiredNumber(body, "price", PriceMax, PriceStep)
       /\ OptionalDescription(body)
       /\ Has(body, "platform") =>
            /\ Has(body.platform, "string")
            /\ StrLen(Trim(body.platform.string)) <= PlatformTextMax
    THEN Valid(IF Has(body, "platform")
               THEN With(Converted(body), "platform",
                         [string |-> Trim(body.platform.string)])
               ELSE Converted(body))
    ELSE Invalid

\* gen_random_uuid() hands these out, in this order
Uuids == <<"uuid-1", "uuid-2", "uuid-3", "uuid-4", "uuid-5">>

\* idSchema: Joi.string().uuid().required()
idSchema(id) == \E i \in 1..Len(Uuids) : Uuids[i] = id

\* ------------------------------------------------------------- the store
\* parameters handed on as validation left them, empty strings included
ParametersAsSent(value) == value

\* x || null for the three optional parameters of INSERT and UPDATE: a
\* missing key and an empty string become NULL, that is, no column
Parameters(value) ==
    Without(value,
            (IF Has(value, "description") /\ value.description = <<>>
             THEN {"description"} ELSE {})
            \cup
            (IF Has(value, "platform") /\ value.platform = [string |-> <<>>]
             THEN {"platform"} ELSE {}))

\* SQLSTATE the games table of README.md answers a row's parameters with, ""
\* when it takes them: platform TEXT[] takes no plain string (22P02), price
\* DECIMAL(6,2) overflows (22003), the CHECKs on rating and price (23514),
\* created_by and updated_by REFERENCES users(id) (23503).  README.md puts no
\* UNIQUE constraint on name; where the table carries a unique index on name
\* all the same (nameIndex), a name one of the other rows has raises 23505.
\* others are the rows the written row is to stand beside.
SqlState(params, by, others) ==
    IF Has(params, "platform") /\ ~Has(params.platform, "array") THEN "22P02"
    ELSE IF params.price > PriceMax \/ params.price < -PriceMax THEN "22003"
    ELSE IF params.rating < 0 \/ params.rating > RatingMax \/ params.price < 0
    THEN "23514"
    ELSE IF nameIndex /\ \E r \in others : r.name = params.name THEN "23505"
    ELSE IF by # <<>> /\ ~(\E u \in users : u.id = by[1]) THEN "23503"
    ELSE ""

\* The row INSERT INTO games builds: id DEFAULT gen_random_uuid(), created_at
\* and updated_at DEFAULT CURRENT_TIMESTAMP, created_by when it is not NULL
InsertedRow(params, by, id, t) ==
    LET row == With(With(With(params, "id", id), "createdAt", t), "updatedAt", t)
    IN  IF by = <<>> THEN row ELSE With(row, "createdBy", by[1])

\* an UPDATE that stamps created_at as well
UpdatedRowStamped(old, params, by, t) ==
    [k \in DOMAIN old \cup DOMAIN params |->
        IF k \in {"createdAt", "updatedAt"} THEN t
        ELSE IF k \in DOMAIN params THEN params[k] ELSE old[k]]

\* The row UPDATE games SET ... leaves: the eight SET columns replaced, id,
\* created_at and created_by kept
UpdatedRow(old, params, by, t) ==
    LET kept == [k \in DOMAIN old \cap {"id", "createdAt", "createdBy"} |-> old[k]]
        row == [k \in DOMAIN kept \cup DOMAIN params \cup {"updatedAt"} |->
                   IF k = "updatedAt" THEN t
                   ELSE IF k \in DOMAIN params THEN params[k] ELSE kept[k]]
    IN  IF by = <<>> THEN row ELSE With(row, "updatedBy", by[1])

\* release_date DATE read back: node-postgres hands a Date of that day's
\* midnight, which JSON writes as an instant (the server's zone being UTC)
DateColumn(day) == day \o "T00:00:00.000Z"

\* The columns every SELECT and RETURNING of the handlers lists
Returned(row) ==
    LET listed == Without(row, {"createdBy", "updatedBy"}) IN
    IF Has(listed, "releaseDate")
    THEN [listed EXCEPT !.releaseDate = DateColumn(@)] ELSE listed

\* WHERE id = $1
RowsById(id) == {r \in gamesTable : r.id = id}

\* ------------------------------------------------------------- responses
\* What a handler answers and leaves behind: the game store after it (the
\* table, or the array), the reads and writes it issued against the store.
Reply(status, error, data, store, reads, writes) ==
    [status |-> status, error |-> error, data |-> data, store |-> store,
     reads |-> reads, writes |-> writes]

ValidationFailed == Reply(400, "Validation failed", {}, gamesTable, 0, 0)
AuthFailed(auth) == Reply(auth.status, auth.error, {}, gamesTable, 0, 0)

\* req.user['id'] in api/server.ts: the decoded payload's key id
ExpressUserId(user) == IF Has(user, "id") THEN <<user.id>> ELSE <<>>

\* user.userId in the Next.js handlers
NextUserId(user) == <<user.userId>>

\* --------------------------------------------- the four statements on games
\* INSERT INTO games ... RETURNING, and the catch block of POST /api/games
InsertGame(params, by, id, t) ==
    LET state == SqlState(params, by, gamesTable)
        row == InsertedRow(params, by, id, t)
    IN  IF state = ""
        THEN Reply(201, "", {Returned(row)}, gamesTable \cup {row}, 0, 1)
        ELSE IF state = "23505"
        THEN Reply(409, "Game with this name already exists", {}, gamesTable, 0, 1)
        ELSE Reply(500, "Failed to create game", {}, gamesTable, 0, 1)

\* UPDATE games SET ... WHERE id = $8 RETURNING, and what PUT answers
UpdateGame(id, params, by, t) ==
    LET rows == RowsById(id)
        state == SqlState(params, by, IF rows = {} THEN {} ELSE gamesTable \ rows)
        new == {UpdatedRow(old, params, by, t) : old \in rows}
    IN  IF state # ""
        THEN Reply(500, "Failed to update game", {}, gamesTable, 0, 1)
        ELSE IF rows # {}
        THEN Reply(200, "", {Returned(r) : r \in new},
                   (gamesTable \ rows) \cup new, 0, 1)
        ELSE Reply(404, "Game not found", {}, gamesTable, 0, 1)

\* a DELETE that answers for the row and leaves it
DeleteGameKept(id) ==
    IF RowsById(id) # {}
    THEN Reply(200, "", {}, gamesTable, 0, 1)
    ELSE Reply(404, "Game not found", {}, gamesTable, 0, 1)

\* DELETE FROM games WHERE id = $1 RETURNING id, and what DELETE answers
DeleteGame(id) ==
    IF RowsById(id) # {}
    THEN Reply(200, "", {}, gamesTable \ RowsById(id), 0, 1)
    ELSE Reply(404, "Game not found", {}, gamesTable, 0, 1)

\* SELECT ... FROM games WHERE id = $1, and what GET answers
SelectGame(id) ==
    IF RowsById(id) # {}
    THEN Reply(200, "", {Returned(r) : r \in RowsById(id)}, gamesTable, 1, 0)
    ELSE Reply(404, "Game not found", {}, gamesTable, 1, 0)

\* The page query and the count query of GET /api/games with no query
\* parameters: page 1, limit 10, no search
SelectGames ==
    Reply(200, "", {Returned(r) : r \in gamesTable}, gamesTable, 2, 0)

\* ------------------------------------------------- api/server.ts handlers
ExpressListGames(headers) ==
    LET auth == authenticateToken(headers, JWT_SECRET, now) IN
    IF ~auth.ok THEN AuthFailed(auth) ELSE SelectGames

ExpressGetGame(headers, id) ==
    LET auth == authenticateToken(headers, JWT_SECRET, now) IN
    IF ~auth.ok THEN AuthFailed(auth)
    ELSE IF ~idSchema(id) THEN ValidationFailed
    ELSE SelectGame(id)

ExpressPostGame(headers, body) ==
    LET auth == authenticateToken(headers, JWT_SECRET, now)
        checked_ == gameSchemaExpress(body)
    IN  IF ~auth.ok THEN AuthFailed(auth)
        ELSE IF ~checked_.ok THEN ValidationFailed
        ELSE InsertGame(Parameters(checked_.value), ExpressUserId(auth.user[1]),
                        Uuids[nextId], now)

ExpressPutGame(headers, id, body) ==
    LET auth == authenticateToken(headers, JWT_SECRET, now)
        checked_ == gameSchemaExpress(body)
    IN  IF ~auth.ok THEN AuthFailed(auth)
        ELSE IF ~idSchema(id) THEN ValidationFailed
        ELSE IF ~checked_.ok THEN ValidationFailed
        ELSE UpdateGame(id, Parameters(checked_.value),
                        ExpressUserId(auth.user[1]), now)

ExpressDeleteGame(headers, id) ==
    LET auth == authenticateToken(headers, JWT_SECRET, now) IN
    IF ~auth.ok THEN AuthFailed(auth)
    ELSE IF ~idSchema(id) THEN ValidationFailed
    ELSE DeleteGame(id)

\* ----------------------------- app/api/games handlers, database-backed
NextListGames(headers) ==
    LET auth == nextAuth(headers, JWT_SECRET, now) IN
    IF ~auth.ok THEN AuthFailed(auth) ELSE SelectGames

NextGetGame(headers, id) ==
    LET auth == nextAuth(headers, JWT_SECRET, now) IN
    IF ~auth.ok THEN AuthFailed(auth)
    ELSE IF ~idSchema(id) THEN ValidationFailed
    ELSE SelectGame(id)

NextPostGame(headers, body) ==
    LET auth == nextAuth(headers, JWT_SECRET, now)
        checked_ == gameSchemaNext(body)
    IN  IF ~auth.ok THEN AuthFailed(auth)
        ELSE IF ~checked_.ok THEN ValidationFailed
        ELSE InsertGame(Parameters(checked_.value), NextUserId(auth.user[1]),
                        Uuids[nextId], now)

NextPutGame(headers, id, body) ==
    LET auth == nextAuth(headers, JWT_SECRET, now)
        checked_ == gameSchemaNext(body)
    IN  IF ~auth.ok THEN AuthFailed(auth)
        ELSE IF ~idSchema(id) THEN ValidationFailed
        ELSE IF ~checked_.ok THEN ValidationFailed
        ELSE UpdateGame(id, Parameters(checked_.value),
                        NextUserId(auth.user[1]), now)

NextDeleteGame(headers, id) ==
    LET auth == nextAuth(headers, JWT_SECRET, now) IN
    IF ~auth.ok THEN AuthFailed(auth)
    ELSE IF ~idSchema(id) THEN ValidationFailed
    ELSE DeleteGame(id)

\* ------------------- app/api/games/[id]/route.ts, the in-memory variant
\* The array lib/games-data.ts exports, built at hour t
SeedGames(t) ==
    << [id |-> "1", name |-> <<"The Legend of Zelda: Breath of the Wild">>,
        genre |-> <<"Action-Adventure">>, rating |-> 970, price |-> 59990,
        description |-> <<"An open-world adventure game set in the kingdom of Hyrule.">>,
        releaseDate |-> "2017-03-03",
        platform |-> [array |-> << <<"Nintendo Switch">>, <<"Wii U">> >>],
        createdAt |-> t, updatedAt |-> t],
       [id |-> "2", name |-> <<"God of War">>,
        genre |-> <<"Action">>, rating |-> 950, price |-> 49990,
        description |-> <<"Follow Kratos and his son Atreus on an epic journey through Norse mythology.">>,
        releaseDate |-> "2018-04-20",
        platform |-> [array |-> << <<"PlayStation 4">>, <<"PlayStation 5">>, <<"PC">> >>],
        createdAt |-> t, updatedAt |-> t],
       [id |-> "3", name |-> <<"Elden Ring">>,
        genre |-> <<"Action RPG">>, rating |-> 930, price |-> 59990,
        description |-> <<"A dark fantasy action RPG developed by FromSoftware and George R.R. Martin.">>,
        releaseDate |-> "2022-02-25",
        platform |-> [array |-> << <<"PC">>, <<"PlayStation 4">>, <<"PlayStation 5">>,
                                   <<"Xbox One">>, <<"Xbox Series X/S">> >>],
        createdAt |-> t, updatedAt |-> t],
       [id |-> "4", name |-> <<"Minecraft">>,
        genre |-> <<"Sandbox">>, rating |-> 900, price |-> 26950,
        description |-> <<"A sandbox game where players can build and explore blocky worlds.">>,
        releaseDate |-> "2011-11-18",
        platform |-> [array |-> << <<"PC">>, <<"Mobile">>, <<"Console">> >>],
        createdAt |-> t, updatedAt |-> t],
       [id |-> "5", name |-> <<"Stardew Valley">>,
        genre |-> <<"Simulation">>, rating |-> 890, price |-> 14990,
        description |-> <<"A farming simulation game where you inherit your grandfather's old farm plot.">>,
        releaseDate |-> "2016-02-26",
        platform |-> [array |-> << <<"PC">>, <<"Mobile">>, <<"Console">> >>],
        createdAt |-> t, updatedAt |-> t] >>

\* games.findIndex((g) => g.id === id): the first index, 0 for -1
FindIndex(id) ==
    IF \E i \in 1..Len(games) : games[i].id = id
    THEN CHOOSE i \in 1..Len(games) :
            /\ games[i].id = id
            /\ \A j \in 1..(i - 1) : games[j].id # id
    ELSE 0

\* games.splice(index): everything from index on is removed
SpliceFrom(index) == SubSeq(games, 1, index - 1)

\* games.splice(index, 1)
Splice(index) == SubSeq(games, 1, index - 1) \o SubSeq(games, index + 1, Len(games))

\* a PUT that patches: the old game spread, then the keys the body has
updatedGamePatch(old, body, t) ==
    [k \in DOMAIN old \cup DOMAIN body |->
        IF k = "updatedAt" THEN t
        ELSE IF k \in DOMAIN body THEN body[k] ELSE old[k]]

\* The object literal PUT builds: the old game spread, then name and genre
\* trimmed, rating and price as numbers, the three optional keys set or
\* undefined, updatedAt the time of the request
updatedGame(old, body, t) ==
    LET kept == [k \in DOMAIN old \ {"description", "releaseDate", "platform"} |->
                    IF k = "name" THEN Trim(body.name)
                    ELSE IF k = "genre" THEN Trim(body.genre)
                    ELSE IF k = "rating" THEN body.rating
                    ELSE IF k = "price" THEN body.price
                    ELSE IF k = "updatedAt" THEN t
                    ELSE old[k]]
        d == IF Has(body, "description") /\ Trim(body.description) # <<>>
             THEN With(kept, "description", Trim(body.description)) ELSE kept
        r == IF Has(body, "releaseDate") THEN With(d, "releaseDate", body.releaseDate) ELSE d
    IN  IF Has(body, "platform") /\ body.platform # [string |-> <<>>]
        THEN With(r, "platform", body.platform) ELSE r

\* !body.name || !body.genre || body.rating === undefined || body.price === undefined
MissingRequired(body) ==
    \/ ~Has(body, "name") \/ body.name = <<>>
    \/ ~Has(body, "genre") \/ body.genre = <<>>
    \/ ~Has(body, "rating")
    \/ ~Has(body, "price")

MemoryGetGame(id) ==
    LET index == FindIndex(id) IN
    IF index = 0 THEN Reply(404, "Game not found", {}, games, 1, 0)
    ELSE Reply(200, "", {games[index]}, games, 1, 0)

MemoryPutGame(id, body) ==
    LET gameIndex == FindIndex(id) IN
    IF gameIndex = 0 THEN Reply(404, "Game not found", {}, games, 1, 0)
    ELSE IF MissingRequired(body) THEN Reply(400, "Validation failed", {}, games, 1, 0)
    ELSE IF body.rating < 0 \/ body.rating > RatingMax
    THEN Reply(400, "Validation failed", {}, games, 1, 0)
    ELSE IF body.price < 0 THEN Reply(400, "Validation failed", {}, games, 1, 0)
    ELSE LET new == updatedGame(games[gameIndex], body, now) IN
         Reply(200, "", {new}, [games EXCEPT ![gameIndex] = new], 1, 1)

MemoryDeleteGame(id) ==
    LET gameIndex == FindIndex(id) IN
    IF gameIndex = 0 THEN Reply(404, "Game not found", {}, games, 1, 0)
    ELSE Reply(200, "", {}, Splice(gameIndex), 1, 1)

\* ---------------------------------------------------------------- inputs
\* Request bodies.  Plain is valid everywhere; Untidy needs trimming and
\* rounding; Listed carries platform as the array api/server.ts asks for,
\* Texted as the string lib/validation.ts asks for.
Plain == [name |-> <<"A">>, genre |-> <<"G">>, rating |-> 950, price |-> 59990]
Untidy == [name |-> <<" ", "A", " ">>, genre |-> <<"G", " ">>, rating |-> 955,
           price |-> 59994, description |-> <<" ">>, releaseDate |-> "2017-03-03"]
Listed == [name |-> <<"B">>, genre |-> <<"G">>, rating |-> 1000, price |-> 9999990,
           description |-> <<"d">>, releaseDate |-> "2017-03-03",
           platform |-> [array |-> << <<"PC">> >>]]
Texted == [Listed EXCEPT !.platform = [string |-> <<"PC">>]]
RatingHigh == [Plain EXCEPT !.rating = 1100]
PriceNegative == [Plain EXCEPT !.price = -1000]
PriceHigh == [Plain EXCEPT !.price = 10000000]
NoName == [genre |-> <<"G">>, rating |-> 950, price |-> 59990]

Bodies == {Plain, Untidy, Listed, Texted, RatingHigh, PriceNegative, PriceHigh, NoName}

\* Path ids: the first id the table hands out, a well-formed id of no row,
\* an id of the array (which is no UUID)
Ids == {Uuids[1], Uuids[5], "1"}

\* Authorization headers: none, one without a token, a token generateToken
\* made at the start of the run, one made 24 hours before it, one signed
\* with another key, one that is no JWT
Live == generateToken(Alice.id, Alice.email, TokenLifetime)
Expired == generateToken(Alice.id, Alice.email, 0)
Headers == {NoHeaders, BearerOnly, Bearer(Live), Bearer(Expired),
            Bearer(Forged(Live)), Bearer(Garbage)}

\* The requests sent: every header with one id and body, requests without a
\* header with an invalid id or body as well, every id and body with the
\* live token
IdRequests ==
    [headers : Headers, id : {Uuids[1]}]
    \cup [headers : {NoHeaders}, id : {"1"}]
    \cup [headers : {Bearer(Live)}, id : Ids]

BodyRequests ==
    [headers : Headers, body : {Plain}]
    \cup [headers : {NoHeaders}, body : {RatingHigh}]
    \cup [headers : {Bearer(Live)}, body : Bodies]

PutRequests ==
    [headers : Headers, id : {Uuids[1]}, body : {Plain}]
    \cup [headers : {NoHeaders}, id : {"1"}, body : {Plain, RatingHigh}]
    \cup [headers : {Bearer(Live)}, id : Ids, body : Bodies]

NoBody == <<>>
NoId == ""

\* --------------------------------------------------------------- actions
\* no request counted by limiter (all of /api/) and strictLimiter (writes on
\* /api/games)
\* app/games/page.tsx as mounted: page 1, no search term, nothing shown,
\* no fetch awaited, no fetch issued
NoPage ==
    [currentPage |-> 1, searchTerm |-> <<>>, games |-> <<>>, totalPages |-> 1,
     fetches |-> {}, issued |-> 0]

Clients == <<"10.0.0.1", "10.0.0.2">>
NoHits == [c \in {Clients[1], Clients[2]} |-> [limiter |-> 0, strictLimiter |-> 0]]

NoRequest ==
    [impl |-> "", op |-> "", headers |-> NoHeaders, id |-> NoId, body |-> NoBody,
     status |-> 0, error |-> "", data |-> {}, reads |-> 0, writes |-> 0]

Init ==
    /\ JWT_SECRET \in BOOLEAN
    /\ variant \in {"database", "memory"}
    /\ now = TokenLifetime
    /\ users = {Alice}
    /\ gamesTable = {}
    /\ games = SeedGames(TokenLifetime)
    /\ nextId = 1
    /\ last = NoRequest
    /\ regs = <<>>
    /\ issued = {}
    /\ checked = <<>>
    /\ nameIndex = FALSE
    /\ hits = NoHits
    /\ listing = <<>>
    /\ ui = NoPage

\* A handler has answered: the response and the store it leaves
Respond(impl, op, headers, id, body, r) ==
    /\ last' = [impl |-> impl, op |-> op, headers |-> headers, id |-> id,
                body |-> body, status |-> r.status, error |-> r.error,
                data |-> r.data, reads |-> r.reads, writes |-> r.writes]
    /\ IF impl = "memory"
       THEN games' = r.store /\ UNCHANGED gamesTable
       ELSE gamesTable' = r.store /\ UNCHANGED games
    /\ nextId' = IF op = "create" /\ r.status = 201 THEN nextId + 1 ELSE nextId
    /\ UNCHANGED <<listing, ui, nameIndex, hits, JWT_SECRET, variant, now, users, regs, issued, checked>>

ExpressList ==
    /\ variant = "database"
    /\ \E h \in Headers :
         Respond("express", "list", h, NoId, NoBody, ExpressListGames(h))

ExpressGet ==
    /\ variant = "database"
    /\ \E q \in IdRequests :
         Respond("express", "get", q.headers, q.id, NoBody, ExpressGetGame(q.headers, q.id))

ExpressPost ==
    /\ variant = "database"
    /\ nextId <= MaxIds
    /\ \E q \in BodyRequests :
         Respond("express", "create", q.headers, NoId, q.body,
                 ExpressPostGame(q.headers, q.body))

ExpressPut ==
    /\ variant = "database"
    /\ \E q \in PutRequests :
         Respond("express", "update", q.headers, q.id, q.body,
                 ExpressPutGame(q.headers, q.id, q.body))

ExpressDelete ==
    /\ variant = "database"
    /\ \E q \in IdRequests :
         Respond("express", "delete", q.headers, q.id, NoBody,
                 ExpressDeleteGame(q.headers, q.id))

NextList ==
    /\ variant = "database"
    /\ \E h \in Headers :
         Respond("next", "list", h, NoId, NoBody, NextListGames(h))

NextGet ==
    /\ variant = "database"
    /\ \E q \in IdRequests :
         Respond("next", "get", q.headers, q.id, NoBody, NextGetGame(q.headers, q.id))

NextPost ==
    /\ variant = "database"
    /\ nextId <= MaxIds
    /\ \E q \in BodyRequests :
         Respond("next", "create", q.headers, NoId, q.body,
                 NextPostGame(q.headers, q.body))

NextPut ==
    /\ variant = "database"
    /\ \E q \in PutRequests :
         Respond("next", "update", q.headers, q.id, q.body,
                 NextPutGame(q.headers, q.id, q.body))

NextDelete ==
    /\ variant = "database"
    /\ \E q \in IdRequests :
         Respond("next", "delete", q.headers, q.id, NoBody,
                 NextDeleteGame(q.headers, q.id))

MemoryGet ==
    /\ variant = "memory"
    /\ \E q \in IdRequests :
         Respond("memory", "get", q.headers, q.id, NoBody, MemoryGetGame(q.id))

MemoryPut ==
    /\ variant = "memory"
    /\ \E q \in PutRequests :
         Respond("memory", "update", q.headers, q.id, q.body,
                 MemoryPutGame(q.id, q.body))

MemoryDelete ==
    /\ variant = "memory"
    /\ \E q \in IdRequests :
         Respond("memory", "delete", q.headers, q.id, NoBody, MemoryDeleteGame(q.id))

\* An hour passes
Tick ==
    /\ now < TokenLifetime + MaxTicks
    /\ now' = now + 1
    /\ UNCHANGED <<listing, ui, nameIndex, hits, JWT_SECRET, variant, users, gamesTable, games, nextId, last,
                   regs, issued, checked>>

Next ==
    \/ ExpressList \/ ExpressGet \/ ExpressPost \/ ExpressPut \/ ExpressDelete
    \/ NextList \/ NextGet \/ NextPost \/ NextPut \/ NextDelete
    \/ MemoryGet \/ MemoryPut \/ MemoryDelete
    \/ Tick

Spec == Init /\ [][Next]_vars

\* the handlers that stamp created_at and updated_at, and the clock
NextStamps ==
    \/ ExpressPost \/ ExpressPut
    \/ NextPost \/ NextPut
    \/ MemoryPut
    \/ Tick

SpecStamps == Init /\ [][NextStamps]_vars

\* ------------------------------------------------- the token service alone
\* SpecTok: generateToken, the two verifications and the clock, from hour 0
NotChecked == <<>>

InitTok ==
    /\ JWT_SECRET \in BOOLEAN
    /\ variant = "database"
    /\ now = 0
    /\ users = {Alice}
    /\ gamesTable = {}
    /\ games = SeedGames(0)
    /\ nextId = 1
    /\ last = NoRequest
    /\ regs = <<>>
    /\ issued = {}
    /\ checked = NotChecked
    /\ nameIndex = FALSE
    /\ hits = NoHits
    /\ listing = <<>>
    /\ ui = NoPage

\* generateToken(user.id, user.email), which throws without a key; the
\* service keeps no record of it: issued is what clients hold
TokIssue ==
    /\ JWT_SECRET
    /\ Cardinality(issued) < MaxTokens
    /\ \E u \in users :
         issued' = issued \cup {[userId |-> u.id, email |-> u.email, at |-> now,
                                 token |-> generateToken(u.id, u.email, now)]}
    /\ UNCHANGED <<listing, ui, nameIndex, hits, JWT_SECRET, variant, now, users, gamesTable, games, nextId, last,
                   regs, checked>>

\* Tokens a client may present: the ones handed out, and forgeries of them
Presentable == {i.token : i \in issued} \cup {Forged(i.token) : i \in issued}

\* authenticateToken of api/server.ts on a presented token
TokVerifyExpress ==
    /\ \E tok \in Presentable :
         LET auth == authenticateToken(Bearer(tok), JWT_SECRET, now) IN
         checked' = [impl |-> "express", token |-> tok, at |-> now,
                     user |-> auth.user]
    /\ UNCHANGED <<listing, ui, nameIndex, hits, JWT_SECRET, variant, now, users, gamesTable, games, nextId, last,
                   regs, issued>>

\* verifyToken of lib/auth.ts on a presented token
TokVerifyNext ==
    /\ \E tok \in Presentable :
         checked' = [impl |-> "next", token |-> tok, at |-> now,
                     user |-> verifyToken(Bearer(tok), JWT_SECRET, now)]
    /\ UNCHANGED <<listing, ui, nameIndex, hits, JWT_SECRET, variant, now, users, gamesTable, games, nextId, last,
                   regs, issued>>

TokTick ==
    /\ now < MaxClock
    /\ now' = now + 1
    /\ UNCHANGED <<listing, ui, nameIndex, hits, JWT_SECRET, variant, users, gamesTable, games, nextId, last,
                   regs, issued, checked>>

NextTok == TokIssue \/ TokVerifyExpress \/ TokVerifyNext \/ TokTick

SpecTok == InitTok /\ [][NextTok]_vars

\* ------------------------------------------------ several rows of games
\* SpecRows: creates of one name and deletes through both database-backed
\* implementations, with the live token
SameName == {Plain, Untidy}

RowsExpressPost ==
    /\ nextId <= MaxRows
    /\ \E b \in SameName :
         Respond("express", "create", Bearer(Live), NoId, b,
                 ExpressPostGame(Bearer(Live), b))

RowsNextPost ==
    /\ nextId <= MaxRows
    /\ \E b \in SameName :
         Respond("next", "create", Bearer(Live), NoId, b,
                 NextPostGame(Bearer(Live), b))

RowsExpressDelete ==
    /\ gamesTable # {}
    /\ \E id \in {Uuids[1], Uuids[2]} :
         Respond("express", "delete", Bearer(Live), id, NoBody,
                 ExpressDeleteGame(Bearer(Live), id))

RowsNextDelete ==
    /\ gamesTable # {}
    /\ \E id \in {Uuids[1], Uuids[2]} :
         Respond("next", "delete", Bearer(Live), id, NoBody,
                 NextDeleteGame(Bearer(Live), id))

RowsExpressList ==
    /\ gamesTable # {}
    /\ Respond("express", "list", Bearer(Live), NoId, NoBody,
               ExpressListGames(Bearer(Live)))

RowsNextList ==
    /\ gamesTable # {}
    /\ Respond("next", "list", Bearer(Live), NoId, NoBody, NextListGames(Bearer(Live)))

InitRows == Init /\ variant = "database"

NextRows ==
    \/ RowsExpressPost \/ RowsNextPost \/ RowsExpressDelete \/ RowsNextDelete
    \/ RowsExpressList \/ RowsNextList

SpecRows == InitRows /\ [][NextRows]_vars

\* the handlers that delete games, with creates and updates to delete after
NextFrame ==
    \/ RowsExpressPost \/ RowsExpressDelete \/ RowsNextDelete
    \/ MemoryPut \/ MemoryDelete

SpecFrame == Init /\ [][NextFrame]_vars

\* ------------------------------------------- a table with unique names
\* SpecNames: creates and updates through both database-backed
\* implementations over a games table that carries a unique index on name
NamesBodies == {Plain, Listed, Untidy}

InitNames ==
    /\ JWT_SECRET = TRUE
    /\ variant = "database"
    /\ now = TokenLifetime
    /\ users = {Alice}
    /\ gamesTable = {}
    /\ games = SeedGames(TokenLifetime)
    /\ nextId = 1
    /\ last = NoRequest
    /\ regs = <<>>
    /\ issued = {}
    /\ checked = <<>>
    /\ nameIndex = TRUE
    /\ hits = NoHits
    /\ listing = <<>>
    /\ ui = NoPage

NamesExpressPost ==
    /\ nextId <= MaxRows
    /\ \E b \in NamesBodies :
         Respond("express", "create", Bearer(Live), NoId, b,
                 ExpressPostGame(Bearer(Live), b))

NamesNextPost ==
    /\ nextId <= MaxRows
    /\ \E b \in NamesBodies :
         Respond("next", "create", Bearer(Live), NoId, b,
                 NextPostGame(Bearer(Live), b))

NamesExpressPut ==
    /\ gamesTable # {}
    /\ \E id \in {Uuids[1], Uuids[2]}, b \in NamesBodies :
         Respond("express", "update", Bearer(Live), id, b,
                 ExpressPutGame(Bearer(Live), id, b))

NamesNextPut ==
    /\ gamesTable # {}
    /\ \E id \in {Uuids[1], Uuids[2]}, b \in NamesBodies :
         Respond("next", "update", Bearer(Live), id, b,
                 NextPutGame(Bearer(Live), id, b))

NamesTick ==
    /\ now < TokenLifetime + MaxTicks
    /\ now' = now + 1
    /\ UNCHANGED <<listing, ui, nameIndex, hits, JWT_SECRET, variant, users, gamesTable, games,
                   nextId, last, regs, issued, checked>>

NextNames ==
    \/ NamesExpressPost \/ NamesNextPost \/ NamesExpressPut \/ NamesNextPut
    \/ NamesTick

SpecNames == InitNames /\ [][NextNames]_vars

\* ------------------------------------------------------ the list query
\* A query string value is a sequence of one-character strings; a JavaScript
\* number is a list of no element (NaN) or of one integer.
Digits == <<"0", "1", "2", "3", "4", "5", "6", "7", "8", "9">>
IsDigit(c) == \E i \in 1..Len(Digits) : Digits[i] = c
DigitValue(c) == (CHOOSE i \in 1..Len(Digits) : Digits[i] = c) - 1

NaN == <<>>

RECURSIVE DigitsPrefix(_, _)
\* the value of the longest prefix of digits of s, after the value acc: NaN
\* for no digit at all
DigitsPrefix(s, acc) ==
    IF s # <<>> /\ IsDigit(Head(s))
    THEN DigitsPrefix(Tail(s), <<10 * (IF acc = NaN THEN 0 ELSE acc[1]) + DigitValue(Head(s))>>)
    ELSE acc

\* parseInt(s): blanks skipped, a sign, then digits up to the first other character
parseInt(s) ==
    LET t == TrimLeft(s)
        signed == t # <<>> /\ Head(t) \in {"-", "+"}
        n == DigitsPrefix(IF signed THEN Tail(t) ELSE t, NaN)
    IN  IF n = NaN THEN NaN
        ELSE IF signed /\ Head(t) = "-" THEN <<0 - n[1]>> ELSE n

\* x || d on a number: NaN and 0 are falsy
OrNumber(x, d) == IF x = NaN \/ x = <<0>> THEN <<d>> ELSE x
\* Math.max(a, x) and Math.min(a, x): NaN when x is
MathMax(a, x) == IF x = NaN THEN NaN ELSE IF x[1] > a THEN x ELSE <<a>>
MathMin(a, x) == IF x = NaN THEN NaN ELSE IF x[1] < a THEN x ELSE <<a>>

\* req.query[key] is truthy / searchParams.get(key) || d
Truthy(query, key) == Has(query, key) /\ query[key] # <<>>
OrText(query, key, d) == IF Truthy(query, key) THEN query[key] ELSE d

\* sortBy || "name", sortBy and sortOrder being written as TLA+ strings
SortBy(query) == IF Has(query, "sortBy") /\ query.sortBy # "" THEN query.sortBy ELSE "name"

\* api/server.ts: page and limit
ExpressPage(query) ==
    IF Truthy(query, "page") THEN MathMax(1, OrNumber(parseInt(query.page), 1)) ELSE <<1>>
ExpressLimit(query) ==
    IF Truthy(query, "limit")
    THEN MathMin(LimitMax, MathMax(1, OrNumber(parseInt(query.limit), DefaultLimit)))
    ELSE <<DefaultLimit>>

\* app/api/games/route.ts: page and limit
NextPage(query) == MathMax(1, parseInt(OrText(query, "page", <<"1">>)))
NextLimit(query) ==
    MathMin(LimitMax, MathMax(1, parseInt(OrText(query, "limit", <<"1", "0">>))))

\* (page - 1) * limit
Offset(page, limit) == IF page = NaN \/ limit = NaN THEN NaN ELSE <<(page[1] - 1) * limit[1]>>

validSortColumns == {"name", "genre", "rating", "price", "created_at"}
\* the text as the client sent it
sortColumnRaw(sortBy) == sortBy
sortColumn(sortBy) == IF sortBy \in validSortColumns THEN sortBy ELSE "name"
sortOrder(query) == IF Has(query, "sortOrder") /\ query.sortOrder = "desc" THEN "DESC" ELSE "ASC"

\* The query text, of which only the ORDER BY column, the direction and the
\* WHERE clause vary, and its parameters
ListQuery(query, page, limit) ==
    [orderBy |-> sortColumn(SortBy(query)),
     direction |-> sortOrder(query),
     where |-> Truthy(query, "search"),
     search |-> OrText(query, "search", <<>>),
     limit |-> limit, offset |-> Offset(page, limit)]

\* ILIKE '%search%' on a column: the search text occurs in it, letter case
\* apart; a NULL column matches nothing
Contains(text, pat) ==
    \E i \in 0..(Len(text) - Len(pat)) :
        \A j \in 1..Len(pat) : LowerChunk(text[i + j]) = LowerChunk(pat[j])

Matches(row, sql) ==
    ~sql.where
    \/ Contains(row.name, sql.search) \/ Contains(row.genre, sql.search)
    \/ (Has(row, "description") /\ Contains(row.description, sql.search))

\* the collation order of the letters names and genres are made of
Letters == <<" ", "A", "B", "C", "D", "G", "a", "b", "c", "d", "g">>
LetterRank(c) == CHOOSE i \in 1..Len(Letters) : Letters[i] = c

RECURSIVE TextBefore(_, _)
\* a sorts strictly before b
TextBefore(a, b) ==
    IF b = <<>> THEN FALSE
    ELSE IF a = <<>> THEN TRUE
    ELSE IF Head(a) = Head(b) THEN TextBefore(Tail(a), Tail(b))
    ELSE LetterRank(Head(a)) < LetterRank(Head(b))

\* ORDER BY column: r sorts strictly before q
Before(r, q, column) ==
    IF column = "name" THEN TextBefore(r.name, q.name)
    ELSE IF column = "genre" THEN TextBefore(r.genre, q.genre)
    ELSE IF column = "rating" THEN r.rating < q.rating
    ELSE IF column = "price" THEN r.price < q.price
    ELSE r.createdAt < q.createdAt

\* The orders ORDER BY column direction may return rows in: rows that tie
\* come in any order
Ordered(rows, sql) ==
    {o \in [1..Cardinality(rows) -> rows] :
        /\ \A i, j \in DOMAIN o : i # j => o[i] # o[j]
        /\ \A i, j \in DOMAIN o :
             i < j => ~(IF sql.direction = "ASC" THEN Before(o[j], o[i], sql.orderBy)
                        ELSE Before(o[i], o[j], sql.orderBy))}

\* LIMIT $n with the OFFSET left out
SliceHead(o, limit, offset) ==
    [i \in 1..(IF Len(o) < limit THEN Len(o) ELSE limit) |-> Returned(o[i])]

\* LIMIT $n OFFSET $m
Slice(o, limit, offset) ==
    [i \in 1..(IF Len(o) - offset < 0 THEN 0
               ELSE IF Len(o) - offset < limit THEN Len(o) - offset ELSE limit) |->
        Returned(o[offset + i])]

\* Math.ceil(totalItems / limit)
Ceil(n, d) == IF n % d = 0 THEN n \div d ELSE n \div d + 1

ListReply(status, error, data, meta, page, sql) ==
    [status |-> status, error |-> error, data |-> data, meta |-> meta,
     page |-> page, sql |-> sql]

NoMeta == <<>>

\* The two queries of the list handlers and the response built from them; a
\* NaN parameter for LIMIT or OFFSET is refused by the store (22P02) and the
\* catch block answers
ListReplies(page, sql) ==
    IF sql.limit = NaN \/ sql.offset = NaN
    THEN {ListReply(500, "Failed to retrieve games", <<>>, NoMeta, page, sql)}
    ELSE LET matching == {r \in gamesTable : Matches(r, sql)}
             totalItems == Cardinality(matching)
             totalPages == Ceil(totalItems, sql.limit[1])
         IN  {ListReply(200, "", Slice(o, sql.limit[1], sql.offset[1]),
                        [currentPage |-> page[1], totalPages |-> totalPages,
                         totalItems |-> totalItems, itemsPerPage |-> sql.limit[1],
                         hasNextPage |-> page[1] < totalPages,
                         hasPreviousPage |-> page[1] > 1],
                        page, sql) : o \in Ordered(matching, sql)}

\* GET /api/games of api/server.ts with a query string
ExpressListPage(headers, query) ==
    LET auth == authenticateToken(headers, JWT_SECRET, now) IN
    IF ~auth.ok THEN {ListReply(auth.status, auth.error, <<>>, NoMeta, NaN, <<>>)}
    ELSE ListReplies(ExpressPage(query),
                     ListQuery(query, ExpressPage(query), ExpressLimit(query)))

\* GET of app/api/games/route.ts with a query string
NextListPage(headers, query) ==
    LET auth == nextAuth(headers, JWT_SECRET, now) IN
    IF ~auth.ok THEN {ListReply(auth.status, auth.error, <<>>, NoMeta, NaN, <<>>)}
    ELSE ListReplies(NextPage(query),
                     ListQuery(query, NextPage(query), NextLimit(query)))

\* SpecList: creates through api/server.ts and list requests with query
\* strings through both database-backed implementations
Merge(a, b) == [k \in DOMAIN a \cup DOMAIN b |-> IF k \in DOMAIN a THEN a[k] ELSE b[k]]
NoQuery == <<>>
\* the queries that name key with one of values, and the one that does not
Optional(key, values) == {NoQuery} \cup {[k \in {key} |-> v] : v \in values}

PageTexts == {<<"1">>, <<"2">>, <<"3">>, <<"0">>, <<"-", "1">>, <<"a", "b", "c">>, <<>>}
LimitTexts == {<<"1">>, <<"2">>, <<"0">>, <<"-", "5">>, <<"1", "0", "1">>,
               <<"2", ".", "5">>, <<"a", "b", "c">>}
SortByTexts == {"price", "created_at", "rating", "genre", "", "name; DROP TABLE games"}
SortOrderTexts == {"desc", "asc", "DESC; DELETE FROM games"}
SearchTexts == {<<"d">>, <<"z">>}

Queries ==
    {Merge(pq, lq) : pq \in Optional("page", PageTexts),
                     lq \in Optional("limit", {<<"1">>, <<"2">>})}
    \cup Optional("limit", LimitTexts)
    \cup Optional("sortBy", SortByTexts)
    \cup Optional("sortOrder", SortOrderTexts)
    \cup {[sortBy |-> "name; DROP TABLE games", sortOrder |-> "DESC; DELETE FROM games"],
          [sortBy |-> "price", sortOrder |-> "desc"]}
    \cup {Merge([search |-> t], lq) : t \in SearchTexts, lq \in Optional("limit", {<<"1">>})}

ListRequests ==
    [headers : {Bearer(Live)}, query : Queries]
    \cup [headers : {NoHeaders, Bearer(Expired)}, query : {NoQuery}]

ListRespond(impl, headers, query, r) ==
    /\ last' = [impl |-> impl, op |-> "list", headers |-> headers, query |-> query,
                status |-> r.status, error |-> r.error, data |-> r.data,
                meta |-> r.meta, page |-> r.page, sql |-> r.sql]
    /\ UNCHANGED <<listing, ui, nameIndex, hits, JWT_SECRET, variant, now, users, gamesTable,
                   games, nextId, regs, issued, checked>>

\* the games created: each once, so that only genre and created_at tie
Free == [name |-> <<"C">>, genre |-> <<"D">>, rating |-> 0, price |-> 0]
ListBodies == {Plain, Listed, Free}

ListExpressPost ==
    /\ nextId <= MaxListed
    /\ \E b \in ListBodies :
         /\ \A r \in gamesTable : r.name # b.name
         /\ Respond("express", "create", Bearer(Live), NoId, b,
                    ExpressPostGame(Bearer(Live), b))

ListExpress ==
    /\ variant = "database"
    /\ \E q \in ListRequests :
         \E r \in ExpressListPage(q.headers, q.query) :
            ListRespond("express", q.headers, q.query, r)

ListNext ==
    /\ variant = "database"
    /\ \E q \in ListRequests :
         \E r \in NextListPage(q.headers, q.query) :
            ListRespond("next", q.headers, q.query, r)

InitList == Init /\ variant = "database" /\ JWT_SECRET

NextList_ == ListExpressPost \/ ListExpress \/ ListNext

SpecList == InitList /\ [][NextList_]_vars

\* -------------------------------------------- the two queries of a list
\* SpecRace: a list handler sends its page query and its count query at once
\* (Promise.all over the pool) and the store answers each at a time of its
\* own, while creates and deletes are handled.
\* the page query over the table as it is now, in an order the store may pick
PageQuery(sql) ==
    {Slice(o, sql.limit[1], sql.offset[1]) :
        o \in Ordered({r \in gamesTable : Matches(r, sql)}, sql)}

\* SELECT COUNT(*) FROM games with the same WHERE, over the table as it is now
CountQuery(sql) == Cardinality({r \in gamesTable : Matches(r, sql)})

\* meta of the response, from the count
ListMeta(page, limit, totalItems) ==
    [currentPage |-> page, totalPages |-> Ceil(totalItems, limit),
     totalItems |-> totalItems, itemsPerPage |-> limit,
     hasNextPage |-> page < Ceil(totalItems, limit),
     hasPreviousPage |-> page > 1]

\* a list request whose queries are out: the answers that are back
Listing(impl, headers, query, page, sql) ==
    [impl |-> impl, headers |-> headers, query |-> query, page |-> page,
     sql |-> sql, rows |-> <<>>, count |-> <<>>]

RaceQueries ==
    {NoQuery, [limit |-> <<"1">>], [page |-> <<"2">>, limit |-> <<"1">>]}

\* up to Promise.all: the token, the parameters, the two query texts
RaceBegin(impl, headers, query, auth, page, limit) ==
    /\ IF ~auth.ok
       THEN /\ last' = [impl |-> impl, op |-> "list", headers |-> headers,
                        query |-> query, status |-> auth.status, error |-> auth.error,
                        data |-> <<>>, meta |-> NoMeta, page |-> NaN, sql |-> <<>>]
            /\ UNCHANGED listing
       ELSE /\ listing' = <<Listing(impl, headers, query, page,
                                    ListQuery(query, page, limit))>>
            /\ UNCHANGED last
    /\ UNCHANGED <<ui, nameIndex, hits, JWT_SECRET, variant, now, users, gamesTable,
                   games, nextId, regs, issued, checked>>

RaceExpressBegin ==
    /\ listing = <<>>
    /\ \E h \in {Bearer(Live), NoHeaders} : \E q \in RaceQueries :
         RaceBegin("express", h, q, authenticateToken(h, JWT_SECRET, now),
                   ExpressPage(q), ExpressLimit(q))

RaceNextBegin ==
    /\ listing = <<>>
    /\ \E h \in {Bearer(Live), NoHeaders} : \E q \in RaceQueries :
         RaceBegin("next", h, q, nextAuth(h, JWT_SECRET, now),
                   NextPage(q), NextLimit(q))

\* the store answers the page query
RacePageQuery ==
    /\ listing # <<>>
    /\ listing[1].rows = <<>>
    /\ \E rows \in PageQuery(listing[1].sql) :
         listing' = <<[listing[1] EXCEPT !.rows = <<rows>>]>>
    /\ UNCHANGED <<ui, nameIndex, hits, JWT_SECRET, variant, now, users, gamesTable,
                   games, nextId, last, regs, issued, checked>>

\* the store answers the count query
RaceCountQuery ==
    /\ listing # <<>>
    /\ listing[1].count = <<>>
    /\ listing' = <<[listing[1] EXCEPT !.count = <<CountQuery(listing[1].sql)>>]>>
    /\ UNCHANGED <<ui, nameIndex, hits, JWT_SECRET, variant, now, users, gamesTable,
                   games, nextId, last, regs, issued, checked>>

\* both answers are back: the response
RaceRespond ==
    /\ listing # <<>>
    /\ listing[1].rows # <<>> /\ listing[1].count # <<>>
    /\ LET l == listing[1] IN
       last' = [impl |-> l.impl, op |-> "list", headers |-> l.headers,
                query |-> l.query, status |-> 200, error |-> "",
                data |-> l.rows[1],
                meta |-> ListMeta(l.page[1], l.sql.limit[1], l.count[1]),
                page |-> l.page, sql |-> l.sql]
    /\ listing' = <<>>
    /\ UNCHANGED <<ui, nameIndex, hits, JWT_SECRET, variant, now, users, gamesTable,
                   games, nextId, regs, issued, checked>>

NextRace ==
    \/ RaceExpressBegin \/ RaceNextBegin \/ RacePageQuery \/ RaceCountQuery
    \/ RaceRespond \/ ListExpressPost \/ RowsExpressDelete

SpecRace == InitList /\ [][NextRace]_vars

\* -------------------------------------------------------------- register
\* /^[^\s@]+@[^\s@]+\.[^\s@]+$/ : one "@", a "." behind it, no blank
emailRegex(e) ==
    \E i, j \in DOMAIN e :
        /\ 1 < i /\ i + 1 < j /\ j < Len(e)
        /\ e[i] = "@" /\ e[j] = "."
        /\ \A k \in DOMAIN e \ {i} : e[k] \notin {"@", " "}

\* express-validator's isEmail() and normalizeEmail() on such addresses
isEmail(e) == emailRegex(e)
normalizeEmail(e) == toLowerCase(e)

Text(body, key) == IF Has(body, key) THEN body[key] ELSE <<>>

\* what a register handler has decided once its SELECT is answered
RegisterAnswer(status, error) == [pc |-> "done", status |-> status, error |-> error]
RegisterInsert(email, password, name) ==
    [pc |-> "selected", email |-> email, password |-> password, name |-> name]

\* POST /api/auth/register up to and including the SELECT
ExpressRegisterSelect(body) ==
    IF \/ ~isEmail(Text(body, "email"))
       \/ StrLen(Text(body, "password")) < 6
       \/ StrLen(Trim(Text(body, "name"))) < 1
    THEN RegisterAnswer(422, "Validation failed")
    ELSE IF \E u \in users : u.email = normalizeEmail(body.email)
    THEN RegisterAnswer(409, "User already exists")
    ELSE RegisterInsert(normalizeEmail(body.email), body.password, Trim(body.name))

\* POST of the register route up to and including the SELECT
NextRegisterSelect(body) ==
    IF \/ Text(body, "email") = <<>> \/ Text(body, "password") = <<>>
       \/ Text(body, "name") = <<>>
       \/ StrLen(body.password) < 6
       \/ ~emailRegex(body.email)
    THEN RegisterAnswer(422, "Validation failed")
    ELSE IF \E u \in users : u.email = toLowerCase(body.email)
    THEN RegisterAnswer(409, "User already exists")
    ELSE RegisterInsert(toLowerCase(body.email), body.password, Trim(body.name))

\* INSERT INTO users ... RETURNING: email is UNIQUE, a second row of one
\* email raises 23505
UsersSqlState(email) == IF \E u \in users : u.email = email THEN "23505" ELSE ""

InsertedUser(r) ==
    UserRow(UserIds[Cardinality(users) + 1], r.email, bcryptHash(r.password), r.name)

\* the rest of a register handler: INSERT, then the token.  Express looks
\* for the key after the INSERT; generateToken throws without it.  Every
\* throw ends in the handler's catch.
RegisterFinish(r) ==
    IF UsersSqlState(r.email) # ""
    THEN [status |-> 500, error |-> "Internal server error", table |-> users,
          token |-> <<>>]
    ELSE IF ~JWT_SECRET
    THEN [status |-> 500, error |-> "Internal server error",
          table |-> users \cup {InsertedUser(r)}, token |-> <<>>]
    ELSE [status |-> 201, error |-> "", table |-> users \cup {InsertedUser(r)},
          token |-> <<generateToken(InsertedUser(r).id, r.email, now)>>]

Registrations ==
    { [email |-> <<"c", "@", "d", ".", "com">>, password |-> <<"secret2">>, name |-> <<"C">>],
      [email |-> <<"C", "@", "D", ".", "com">>, password |-> <<"secret3">>, name |-> <<" ", "C">>],
      [email |-> <<"a", "@", "b", ".", "com">>, password |-> <<"secret4">>, name |-> <<"A">>],
      [email |-> <<"c", "d", ".", "com">>, password |-> <<"secret2">>, name |-> <<"C">>],
      [email |-> <<"c", "@", "d", ".", "com">>, password |-> <<"short">>, name |-> <<"C">>] }

\* a request in regs: the handler, its body, where it stands, its response
Registering(impl, body, r) ==
    [impl |-> impl, body |-> body, pc |-> r.pc,
     insert |-> IF r.pc = "selected" THEN <<r>> ELSE <<>>,
     status |-> IF r.pc = "done" THEN r.status ELSE 0,
     error |-> IF r.pc = "done" THEN r.error ELSE "",
     token |-> <<>>]

ExpressRegisterBegin ==
    /\ Len(regs) < MaxRegs
    /\ \E b \in Registrations :
         regs' = Append(regs, Registering("express", b, ExpressRegisterSelect(b)))
    /\ UNCHANGED <<listing, ui, nameIndex, hits, JWT_SECRET, variant, now, users, gamesTable, games, nextId, last,
                   issued, checked>>

NextRegisterBegin ==
    /\ Len(regs) < MaxRegs
    /\ \E b \in Registrations :
         regs' = Append(regs, Registering("next", b, NextRegisterSelect(b)))
    /\ UNCHANGED <<listing, ui, nameIndex, hits, JWT_SECRET, variant, now, users, gamesTable, games, nextId, last,
                   issued, checked>>

RegisterEnd(impl) ==
    \E i \in DOMAIN regs :
        /\ regs[i].impl = impl /\ regs[i].pc = "selected"
        /\ LET f == RegisterFinish(regs[i].insert[1])
           IN /\ users' = f.table
              /\ regs' = [regs EXCEPT ![i] = [@ EXCEPT !.pc = "done", !.insert = <<>>,
                                                !.status = f.status, !.error = f.error,
                                                !.token = f.token]]
        /\ UNCHANGED <<listing, ui, nameIndex, hits, JWT_SECRET, variant, now, gamesTable, games, nextId, last,
                       issued, checked>>

ExpressRegisterEnd ==
    /\ regs # <<>>
    /\ RegisterEnd("express")

NextRegisterEnd ==
    /\ regs # <<>>
    /\ RegisterEnd("next")

\* ------------------------------------------------------------------ login
LoginAnswer(status, error, token) ==
    [status |-> status, error |-> error, token |-> token]

\* a comparison that takes every password
bcryptCompareAny(password, hash) == TRUE

\* bcrypt.compare(password, user.password)
bcryptCompare(password, hash) == hash = bcryptHash(password)

\* SELECT id, email, name, password FROM users WHERE email = $1
SelectUsers(email) == {u \in users : u.email = email}

\* a SELECT by the email as the request spelled it
EmailAsSent(email) == email

\* email.toLowerCase(): the parameter of the login route's SELECT
LoginEmail(email) == toLowerCase(email)

\* POST /api/auth/login: isEmail().normalizeEmail() on email, exists() on password
ExpressLogin(body) ==
    IF ~isEmail(Text(body, "email")) \/ ~Has(body, "password")
    THEN LoginAnswer(422, "Validation failed", <<>>)
    ELSE LET rows == SelectUsers(normalizeEmail(body.email)) IN
         IF rows = {} THEN LoginAnswer(401, "Invalid credentials", <<>>)
         ELSE LET user == CHOOSE u \in rows : TRUE IN
              IF ~bcryptCompare(body.password, user.password)
              THEN LoginAnswer(401, "Invalid credentials", <<>>)
              ELSE IF ~JWT_SECRET
              THEN LoginAnswer(500, "Internal server error", <<>>)
              ELSE LoginAnswer(200, "", <<generateToken(user.id, user.email, now)>>)

\* POST of the login route: !email || !password, then the SELECT, bcrypt and
\* generateToken, which throws into the catch without the key
NextLogin(body) ==
    IF Text(body, "email") = <<>> \/ Text(body, "password") = <<>>
    THEN LoginAnswer(422, "Validation failed", <<>>)
    ELSE LET rows == SelectUsers(LoginEmail(body.email)) IN
         IF rows = {} THEN LoginAnswer(401, "Invalid credentials", <<>>)
         ELSE LET user == CHOOSE u \in rows : TRUE IN
              IF ~bcryptCompare(body.password, user.password)
              THEN LoginAnswer(401, "Invalid credentials", <<>>)
              ELSE IF ~JWT_SECRET
              THEN LoginAnswer(500, "Internal server error", <<>>)
              ELSE LoginAnswer(200, "", <<generateToken(user.id, user.email, now)>>)

\* login bodies: the credentials of the registrations and of the first user,
\* a wrong password, an unknown address, no password
Logins ==
    {[email |-> b.email, password |-> b.password] : b \in Registrations}
    \cup { [email |-> Alice.email, password |-> <<"secret1">>],
           [email |-> Alice.email, password |-> <<"secret2">>],
           [email |-> <<"z", "@", "b", ".", "com">>, password |-> <<"secret1">>],
           [email |-> Alice.email] }

LoginRespond(impl, body, r) ==
    /\ last' = [impl |-> impl, op |-> "login", body |-> body, status |-> r.status,
                error |-> r.error, token |-> r.token]
    /\ UNCHANGED <<listing, ui, nameIndex, hits, JWT_SECRET, variant, now, users, gamesTable,
                   games, nextId, regs, issued, checked>>

ExpressLoginStep ==
    /\ variant = "database"
    /\ \E b \in Logins : LoginRespond("express", b, ExpressLogin(b))

NextLoginStep ==
    /\ variant = "database"
    /\ \E b \in Logins : LoginRespond("next", b, NextLogin(b))

InitReg == Init /\ variant = "database"

NextReg ==
    \/ ExpressRegisterBegin \/ NextRegisterBegin
    \/ ExpressRegisterEnd \/ NextRegisterEnd
    \/ ExpressLoginStep \/ NextLoginStep

SpecReg == InitReg /\ [][NextReg]_vars

\* --------------------------------------------------------------- pipeline
\* api/server.ts as Express runs it: the app.use and route layers in the order
\* of registration, one request in flight in last, its responses collected.
LimiterMax == 100
StrictLimiterMax == 20

\* res.status(status).json({ success, error, ... })
Envelope(status, success, error) ==
    [status |-> status, type |-> "json", success |-> <<success>>, error |-> error]

\* express-rate-limit without a message option: its default text, res.send
TooManyText ==
    [status |-> 429, type |-> "text", success |-> <<>>,
     error |-> "Too many requests, please try again later."]

\* Express's own answer to next(err) when no (err, req, res, next) layer is
\* registered: err.status and an HTML page
ErrorPage(status) == [status |-> status, type |-> "html", success |-> <<>>, error |-> ""]

\* app.use(path, ...): the layer runs for path itself and what lies below it
Under(mount, path) ==
    \/ path = mount
    \/ /\ Len(path) > Len(mount)
       /\ SubSeq(path, 1, Len(mount)) = mount
       /\ (mount[Len(mount)] = "/" \/ path[Len(mount) + 1] = "/")

\* a request body on the wire: none, JSON text of a body, text that is no JSON
PipeRequest(method, path, headers, raw, body) ==
    [ip |-> Clients[1], method |-> method, path |-> path, headers |-> headers,
     raw |-> raw, body |-> body]

ApiGames == <<"/", "api", "/", "games">>

PipeRequests ==
    { PipeRequest("GET", <<"/", "api", "/", "health">>, NoHeaders, "none", NoBody),
      PipeRequest("GET", ApiGames, Bearer(Live), "none", NoBody),
      PipeRequest("GET", ApiGames, NoHeaders, "none", NoBody),
      PipeRequest("POST", ApiGames, Bearer(Live), "json", Plain),
      PipeRequest("POST", ApiGames, Bearer(Live), "json", NoName),
      PipeRequest("POST", ApiGames, Bearer(Live), "malformed", NoBody),
      PipeRequest("GET", <<"/", "api", "/", "nothing">>, NoHeaders, "none", NoBody),
      PipeRequest("POST", <<"/", "other">>, NoHeaders, "json", Plain) }

\* the request in flight: the layer it stands before, whether a layer has
\* passed an error on, the responses written so far
InFlight(q, pc, failed, responses) ==
    [op |-> "pipe", pc |-> pc, failed |-> failed, request |-> q,
     responses |-> responses]

Pending == last.op = "pipe" /\ last.pc # "done"

\* a request arrives; helmet and cors set headers and pass it on
PipeArrive ==
    /\ ~Pending
    /\ \E q \in PipeRequests :
         /\ (q.method = "POST" /\ q.path = ApiGames /\ gameSchemaExpress(q.body).ok)
               => nextId <= MaxIds
         /\ last' = InFlight(q, "limiter", FALSE, <<>>)
    /\ UNCHANGED <<listing, ui, nameIndex, hits, JWT_SECRET, variant, now, users, gamesTable,
                   games, nextId, regs, issued, checked>>

\* express-rate-limit: the hit is counted, and past max the request is
\* answered 429 with the message.  The count stops at max + 1.
Count(n, max) == IF n > max THEN n ELSE n + 1

\* one counter for every address
keyGeneratorShared(q) == Clients[1]

\* the default keyGenerator: req.ip
keyGenerator(q) == q.ip

\* a strictLimiter that skips nothing
skipNever(q) == FALSE

\* skip: (req) => req.method === 'GET'
skip(q) == q.method = "GET"

\* app.use('/api/', limiter)
PipeLimiter ==
    /\ Pending /\ last.pc = "limiter"
    /\ LET key == keyGenerator(last.request) IN
       IF ~Under(<<"/", "api", "/">>, last.request.path)
       THEN /\ last' = [last EXCEPT !.pc = "strictLimiter"]
            /\ UNCHANGED hits
       ELSE /\ hits' = [hits EXCEPT ![key].limiter = Count(@, LimiterMax)]
            /\ last' = IF hits[key].limiter + 1 > LimiterMax
                       THEN [last EXCEPT !.pc = "done",
                               !.responses = Append(@, Envelope(429, FALSE,
                                   "Too many requests, please try again later"))]
                       ELSE [last EXCEPT !.pc = "strictLimiter"]
    /\ UNCHANGED <<listing, ui, nameIndex, JWT_SECRET, variant, now, users, gamesTable,
                   games, nextId, regs, issued, checked>>

\* app.use('/api/games', strictLimiter), skip: GET
PipeStrictLimiter ==
    /\ Pending /\ last.pc = "strictLimiter"
    /\ LET key == keyGenerator(last.request) IN
       IF ~Under(ApiGames, last.request.path) \/ skip(last.request)
       THEN /\ last' = [last EXCEPT !.pc = "json"]
            /\ UNCHANGED hits
       ELSE /\ hits' = [hits EXCEPT ![key].strictLimiter = Count(@, StrictLimiterMax)]
            /\ last' = IF hits[key].strictLimiter + 1 > StrictLimiterMax
                       THEN [last EXCEPT !.pc = "done",
                               !.responses = Append(@, TooManyText)]
                       ELSE [last EXCEPT !.pc = "json"]
    /\ UNCHANGED <<listing, ui, nameIndex, JWT_SECRET, variant, now, users, gamesTable,
                   games, nextId, regs, issued, checked>>

\* express.json (and express.urlencoded, which leaves JSON alone): a body
\* that does not parse is passed on as an error of status 400
PipeJson ==
    /\ Pending /\ last.pc = "json"
    /\ last' = IF last.request.raw = "malformed"
               THEN [last EXCEPT !.pc = "error", !.failed = TRUE]
               ELSE [last EXCEPT !.pc = "route"]
    /\ UNCHANGED <<listing, ui, nameIndex, hits, JWT_SECRET, variant, now, users, gamesTable,
                   games, nextId, regs, issued, checked>>

\* logRequest, then the first layer that matches: a route with its
\* middleware and handler, or the 404 layer
Routed(q) ==
    IF q.method = "GET" /\ q.path = <<"/", "api", "/", "health">>
    THEN Reply(200, "", {}, gamesTable, 1, 0)
    ELSE IF q.method = "GET" /\ q.path = ApiGames
    THEN ExpressListGames(q.headers)
    ELSE IF q.method = "POST" /\ q.path = ApiGames
    THEN ExpressPostGame(q.headers, q.body)
    ELSE Reply(404, "Endpoint not found", {}, gamesTable, 0, 0)

PipeRoute ==
    /\ Pending /\ last.pc = "route"
    /\ LET r == Routed(last.request)
       IN  /\ last' = [last EXCEPT !.pc = "done",
                         !.responses = Append(@, Envelope(r.status, r.status < 400, r.error))]
           /\ gamesTable' = r.store
           /\ nextId' = IF r.status = 201 THEN nextId + 1 ELSE nextId
    /\ UNCHANGED <<listing, ui, nameIndex, hits, JWT_SECRET, variant, now, users, games, regs,
                   issued, checked>>

\* an error passed on skips every layer of fewer than four parameters, the
\* 404 layer and the (err, res) layer behind it among them, and reaches
\* Express's own handler
PipeError ==
    /\ Pending /\ last.pc = "error"
    /\ last' = [last EXCEPT !.pc = "done", !.responses = Append(@, ErrorPage(400))]
    /\ UNCHANGED <<listing, ui, nameIndex, hits, JWT_SECRET, variant, now, users, gamesTable,
                   games, nextId, regs, issued, checked>>

\* windowMs of one limiter is over for one address: its count starts anew
PipeWindow ==
    /\ hits # NoHits
    /\ \E c \in DOMAIN hits : \E l \in {"limiter", "strictLimiter"} :
         /\ hits[c][l] # 0
         /\ hits' = [hits EXCEPT ![c][l] = 0]
    /\ UNCHANGED <<listing, ui, nameIndex, JWT_SECRET, variant, now, users, gamesTable, games,
                   nextId, last, regs, issued, checked>>

InitPipe == Init /\ variant = "database" /\ JWT_SECRET

NextPipe ==
    \/ PipeArrive \/ PipeLimiter \/ PipeStrictLimiter \/ PipeJson
    \/ PipeRoute \/ PipeError \/ PipeWindow

SpecPipe == InitPipe /\ [][NextPipe]_vars

\* requests that write no game: health, a read and a write of games without
\* a token, a path outside /api/.  The second address sends the write only.
LimitRequests ==
    { PipeRequest("GET", <<"/", "api", "/", "health">>, NoHeaders, "none", NoBody),
      PipeRequest("GET", ApiGames, NoHeaders, "none", NoBody),
      PipeRequest("POST", ApiGames, NoHeaders, "json", Plain),
      PipeRequest("POST", <<"/", "other">>, NoHeaders, "json", Plain) }

LimitArrive ==
    /\ ~Pending
    /\ \E q \in LimitRequests : \E c \in DOMAIN hits :
         /\ c # Clients[1] =>
               /\ hits[c].limiter < MaxOther /\ hits[c].strictLimiter < MaxOther
               /\ q.method = "POST" /\ q.path = ApiGames
         /\ last' = InFlight([q EXCEPT !.ip = c], "limiter", FALSE, <<>>)
    /\ UNCHANGED <<listing, ui, nameIndex, hits, JWT_SECRET, variant, now, users, gamesTable,
                   games, nextId, regs, issued, checked>>

NextLimiters ==
    \/ LimitArrive \/ PipeLimiter \/ PipeStrictLimiter \/ PipeJson
    \/ PipeRoute \/ PipeWindow

SpecLimiters == InitPipe /\ [][NextLimiters]_vars

\* ------------------------------------------------- the games list page
\* SpecUi: app/games/page.tsx in front of a games route whose store holds
\* still: the user types in the search box and pages through the list, every
\* change of currentPage or searchTerm issues a fetch, and the responses of
\* the awaited fetches arrive in any order.
MaxFetches == 4    \* fetches the page issues in SpecUi

\* limit: "10" of the query string fetchGames builds
PageLimit == 10

\* what the user types in the search box
UiTerms == {<<>>, <<"d">>, <<"z">>}

\* the games of the store that match a search term
MatchCount(search) ==
    IF search = <<>> THEN 25 ELSE IF search = <<"d">> THEN 12 ELSE 0

\* the rows page `page` of the matches of `search` holds, PageLimit a page
PageRows(page, search) ==
    LET left == MatchCount(search) - (page - 1) * PageLimit
        n == IF left < 0 THEN 0 ELSE IF left < PageLimit THEN left ELSE PageLimit
    IN  [i \in 1..n |-> [search |-> search, row |-> (page - 1) * PageLimit + i]]

\* the response of the games route to the fetch f: data and meta.totalPages
ListResponse(f) ==
    [success |-> TRUE, data |-> PageRows(f.page, f.search),
     meta |-> [totalPages |-> Ceil(MatchCount(f.search), PageLimit)]]

\* fetchGames up to its await: the request carries the currentPage and the
\* searchTerm of the render it was called in
fetchGames(page, search) ==
    [n |-> ui.issued + 1, page |-> page, search |-> search]

\* the effect on [currentPage, searchTerm, token]: a render with other values
\* calls fetchGames
UiRender(page, search) ==
    /\ ui.issued < MaxFetches
    /\ ui' = [ui EXCEPT !.currentPage = page, !.searchTerm = search,
                        !.fetches = @ \cup {fetchGames(page, search)},
                        !.issued = @ + 1]
    /\ UNCHANGED <<listing, nameIndex, hits, JWT_SECRET, variant, now, users,
                   gamesTable, games, nextId, last, regs, issued, checked>>

\* the first render with a token
UiMount ==
    /\ ui.issued = 0
    /\ UiRender(ui.currentPage, ui.searchTerm)

\* onChange of the search input: setSearchTerm(e.target.value); setCurrentPage(1)
UiSearch ==
    /\ ui.issued > 0
    /\ \E t \in UiTerms :
         /\ t # ui.searchTerm
         /\ UiRender(1, t)

\* the Previous button: setCurrentPage((p) => Math.max(1, p - 1))
UiPrevious ==
    /\ ui.issued > 0
    /\ ui.totalPages > 1
    /\ ui.currentPage # 1
    /\ UiRender(IF ui.currentPage - 1 > 1 THEN ui.currentPage - 1 ELSE 1,
                ui.searchTerm)

\* the Next button: setCurrentPage((p) => Math.min(totalPages, p + 1))
UiNext ==
    /\ ui.issued > 0
    /\ ui.totalPages > 1
    /\ ui.currentPage # ui.totalPages
    /\ UiRender(IF ui.currentPage + 1 < ui.totalPages THEN ui.currentPage + 1
                ELSE ui.totalPages,
                ui.searchTerm)

\* fetchGames after its awaits, for any fetch that is awaited: setGames and
\* setTotalPages from the response, whichever render issued the fetch
UiResponse ==
    /\ ui.fetches # {}
    /\ \E f \in ui.fetches :
         LET data == ListResponse(f) IN
         /\ data.success
         /\ ui' = [ui EXCEPT !.games = data.data,
                             !.totalPages = data.meta.totalPages,
                             !.fetches = @ \ {f}]
    /\ UNCHANGED <<listing, nameIndex, hits, JWT_SECRET, variant, now, users,
                   gamesTable, games, nextId, last, regs, issued, checked>>

NextUi == UiMount \/ UiSearch \/ UiPrevious \/ UiNext \/ UiResponse

SpecUi == InitList /\ [][NextUi]_vars

\* ----------------------------------------------------------------- claims
\* The request answered last went to a protected games endpoint
Answered == last.op \in {"list", "get", "create", "update", "delete"}

\* The token of the request answered last, as a list of no or one token
SentToken == HeaderToken(last.headers)

\* A token that verifies at no hour of the run, and one that does at each
NeverVerifies(tok) ==
    \A t \in TokenLifetime..(TokenLifetime + MaxTicks) : ~jwtVerify(tok, t)
AlwaysVerifies(tok) ==
    \A t \in TokenLifetime..(TokenLifetime + MaxTicks) : jwtVerify(tok, t)

\* C1: a request to a protected games endpoint that carries no Authorization
\* header is answered 401, and no read or write is issued against the game
\* store while it is handled.
C1_NoHeaderUnauthorized ==
    (Answered /\ ~Has(last.headers, "authorization")) =>
        (last.status = 401 /\ last.reads = 0 /\ last.writes = 0)

\* C2: with the signing key configured, the Express and the database-backed
\* Next.js endpoints answer a missing bearer token with 401 "Access token
\* required", a token that is present but does not verify with 403 "Invalid
\* or expired token", and let only a token that verifies proceed.
C2_AuthFailuresDistinguished ==
    (Answered /\ JWT_SECRET /\ last.impl \in {"express", "next"}) =>
        /\ SentToken = <<>> =>
             (last.status = 401 /\ last.error = "Access token required")
        /\ (SentToken # <<>> /\ NeverVerifies(SentToken[1])) =>
             (last.status = 403 /\ last.error = "Invalid or expired token")
        /\ last.status \notin {401, 403} =>
             (SentToken # <<>> /\ AlwaysVerifies(SentToken[1]))

\* C3: a token issued at hour t for (userId, email) is accepted by both
\* verifications, which yield that userId and email, at every hour before
\* t + 24, and is rejected from hour t + 24 on though its signature is right.
C3_TokenLifetime ==
    \A i \in issued :
        (checked # NotChecked /\ checked.token = i.token) =>
            IF checked.at < i.at + TokenLifetime
            THEN /\ checked.user # <<>>
                 /\ checked.user[1].userId = i.userId
                 /\ checked.user[1].email = i.email
            ELSE checked.user = <<>>

\* a token checked in its last valid hour, and one checked an hour later
C3_Witness ==
    /\ checked # NotChecked
    /\ checked.token.key = "JWT_SECRET"
    /\ \E i \in issued :
         /\ i.token = checked.token
         /\ checked.at >= i.at + TokenLifetime
         /\ checked.user = <<>>

\* C4: of two creates of one name exactly one succeeds and the other is
\* answered 409, so the store never holds two games of one name.
C4_OneGamePerName ==
    \A r1, r2 \in gamesTable : r1.name = r2.name => r1 = r2

\* the email a register request is about, as the handlers store it
RegisteredEmail(r) == toLowerCase(Text(r.body, "email"))

\* C5: with the signing key configured, of the registrations of one email
\* none is answered 500, at most one is answered 201, and the store holds
\* at most one user of that email.
C5_DuplicateRegisterConflict ==
    JWT_SECRET =>
        /\ \A i \in DOMAIN regs : regs[i].pc = "done" => regs[i].status # 500
        /\ \A i, j \in DOMAIN regs :
             (i # j /\ RegisteredEmail(regs[i]) = RegisteredEmail(regs[j])) =>
                 ~(regs[i].status = 201 /\ regs[j].status = 201)
        /\ \A u1, u2 \in users : u1.email = u2.email => u1 = u2

\* GET and DELETE of one game through the handlers of impl, with the live token
GetGame(impl, id) ==
    IF impl = "express" THEN ExpressGetGame(Bearer(Live), id)
    ELSE IF impl = "next" THEN NextGetGame(Bearer(Live), id)
    ELSE MemoryGetGame(id)

DeleteAgain(impl, id) ==
    IF impl = "express" THEN ExpressDeleteGame(Bearer(Live), id)
    ELSE IF impl = "next" THEN NextDeleteGame(Bearer(Live), id)
    ELSE MemoryDeleteGame(id)

\* the same for the game of the request answered last
GetLast == GetGame(last.impl, last.id)
DeleteLast == DeleteAgain(last.impl, last.id)

\* The fields of a game a client sends, as opposed to those the server assigns
GameKeys == {"name", "genre", "rating", "price", "description", "releaseDate", "platform"}
Payload(g) == [k \in DOMAIN g \cap GameKeys |-> g[k]]

\* A payload as a client reads it back: name, genre and description without
\* the blanks around them, an empty description or platform gone; from the
\* database, rating to one decimal, price to two, releaseDate as the instant
\* of that day
ReadBack(impl, P) ==
    LET db == impl # "memory"
        base == [name |-> Trim(P.name), genre |-> Trim(P.genre),
                 rating |-> IF db THEN RoundTo(P.rating, RatingStep) ELSE P.rating,
                 price |-> IF db THEN RoundTo(P.price, PriceStep) ELSE P.price]
        d == IF Has(P, "description") /\ Trim(P.description) # <<>>
             THEN With(base, "description", Trim(P.description)) ELSE base
        r == IF Has(P, "releaseDate")
             THEN With(d, "releaseDate",
                       IF db THEN P.releaseDate \o "T00:00:00.000Z" ELSE P.releaseDate)
             ELSE d
    IN  IF Has(P, "platform") /\ P.platform # [string |-> <<>>]
        THEN With(r, "platform", P.platform) ELSE r

Handles(op) ==
    /\ now' = now
    /\ last'.op = op
    /\ last'.impl # "memory" => (JWT_SECRET /\ last'.headers = Bearer(Live))

C8_DeleteThenNotFound ==
    [][(Handles("delete") /\ GetGame(last'.impl, last'.id).status = 200) =>
          /\ last'.status = 200
          /\ GetLast'.status = 404
          /\ DeleteLast'.status = 404]_vars

C8_Witness ==
    /\ last.op = "delete" /\ last.status = 200 /\ last.impl = "next"
    /\ last.id = Uuids[1] /\ RowsById(Uuids[1]) = {} /\ nextId = 2

\* a payload the rules both gameSchemas share turn down
InvalidPayload(body) ==
    \/ ~RequiredText(body, "name", NameMax)
    \/ ~RequiredText(body, "genre", GenreMax)
    \/ ~RequiredNumber(body, "rating", RatingMax, RatingStep)
    \/ ~RequiredNumber(body, "price", PriceMax, PriceStep)

\* C9: a create or update whose payload or id fails validation is answered
\* 400, issues no write and leaves the game store as it was.
C9_InvalidRejectedUnwritten ==
    [][((Handles("create") \/ Handles("update")) /\
        (InvalidPayload(last'.body) \/
         (last'.op = "update" /\ last'.impl # "memory" /\ ~idSchema(last'.id)))) =>
          /\ last'.status = 400
          /\ last'.writes = 0
          /\ gamesTable' = gamesTable
          /\ games' = games]_vars

\* C10: every stored game, in the table and in the array, has a rating in
\* [0, 10] and a price in [0, 9999.99].
C10_StoredWithinBounds ==
    \A g \in gamesTable \cup {games[i] : i \in DOMAIN games} :
        /\ 0 <= g.rating /\ g.rating <= RatingMax
        /\ 0 <= g.price /\ g.price <= PriceMax

\* C11: an update that would give a game the name another stored game has,
\* over a table that reports the conflict, is answered 409 and changes no game.
C11_UpdateConflictAnswered ==
    [][(/\ Handles("update") /\ last'.impl # "memory" /\ nameIndex
        /\ RowsById(last'.id) # {}
        /\ ~InvalidPayload(last'.body)
        /\ \E r \in gamesTable : r.id # last'.id /\ r.name = Trim(last'.body.name)) =>
          /\ last'.status = 409
          /\ gamesTable' = gamesTable]_vars

\* the list request answered last was let in and answered from the table
Paged == last.op = "list" /\ last.status = 200

\* the games of the table the search filter of the request answered last keeps
Filtered == {r \in gamesTable : Matches(r, last.sql)}

\* C12: a list response with page p and limit L over N games matching the
\* filter holds min(L, max(0, N - (p-1)L)) games, all of them matching and no
\* game twice, with totalItems = N, totalPages = ceil(N / L), itemsPerPage = L,
\* hasNextPage = (p < totalPages) and hasPreviousPage = (p > 1).
C12_PageArithmetic ==
    Paged =>
        LET p == last.page[1]
            L == last.sql.limit[1]
            N == Cardinality(Filtered)
            rest == IF N - (p - 1) * L < 0 THEN 0 ELSE N - (p - 1) * L
        IN  /\ Len(last.data) = IF L < rest THEN L ELSE rest
            /\ \A i \in DOMAIN last.data : \E r \in Filtered : last.data[i] = Returned(r)
            /\ \A i, j \in DOMAIN last.data : i # j => last.data[i] # last.data[j]
            /\ last.meta.currentPage = p
            /\ last.meta.totalItems = N
            /\ last.meta.totalPages * L >= N /\ (last.meta.totalPages - 1) * L < N
            /\ last.meta.totalPages >= 0
            /\ last.meta.itemsPerPage = L
            /\ last.meta.hasNextPage = (p < last.meta.totalPages)
            /\ last.meta.hasPreviousPage = (p > 1)

C12_Witness ==
    /\ Paged /\ Cardinality(gamesTable) = 3
    /\ last.page = <<2>> /\ last.sql.limit = <<1>> /\ ~last.sql.where
    /\ Len(last.data) = 1 /\ last.meta.totalPages = 3
    /\ last.meta.hasNextPage /\ last.meta.hasPreviousPage

\* C13: whatever page and limit the query names, the list handlers use an
\* integer page >= 1 and an integer limit in [1, 100], page 1 and limit 10
\* when the parameter is absent or does not parse, and an offset >= 0.
C13_PagingParameters ==
    (last.op = "list" /\ last.status \notin {401, 403}) =>
        /\ last.page # NaN /\ last.page[1] >= 1
        /\ last.sql.limit # NaN /\ last.sql.limit[1] >= 1 /\ last.sql.limit[1] <= LimitMax
        /\ last.sql.offset # NaN /\ last.sql.offset[1] >= 0
        /\ (~Has(last.query, "page") \/ parseInt(last.query.page) = NaN) => last.page = <<1>>
        /\ (~Has(last.query, "limit") \/ parseInt(last.query.limit) = NaN) =>
             last.sql.limit = <<DefaultLimit>>

\* C14: whatever sortBy and sortOrder the query names, the ORDER BY column of
\* the query text is one of name, genre, rating, price, created_at, name when
\* the query names none of them, and the direction is ASC or DESC, DESC only
\* for sortOrder "desc".
C14_SortAllowList ==
    (last.op = "list" /\ last.status \notin {401, 403}) =>
        /\ last.sql.orderBy \in {"name", "genre", "rating", "price", "created_at"}
        /\ (Has(last.query, "sortBy") /\
            last.query.sortBy \in {"name", "genre", "rating", "price", "created_at"})
             => last.sql.orderBy = last.query.sortBy
        /\ (~Has(last.query, "sortBy") \/
            last.query.sortBy \notin {"name", "genre", "rating", "price", "created_at"})
             => last.sql.orderBy = "name"
        /\ last.sql.direction \in {"ASC", "DESC"}
        /\ last.sql.direction = "DESC" <=>
             (Has(last.query, "sortOrder") /\ last.query.sortOrder = "desc")

C14_Witness ==
    /\ last.op = "list" /\ last.status = 200
    /\ Has(last.query, "sortBy") /\ last.query.sortBy = "name; DROP TABLE games"
    /\ Has(last.query, "sortOrder") /\ last.query.sortOrder = "DESC; DELETE FROM games"
    /\ last.sql.orderBy = "name" /\ last.sql.direction = "ASC"


\* C15: every row of the games table written by a successful create has a
\* createdBy, and it is the id of a row of the users table: no game has a
\* null or unknown owner.
C15_CreatedByOwner ==
    \A r \in gamesTable :
        /\ Has(r, "createdBy")
        /\ \E u \in users : u.id = r.createdBy


\* a login answered by the implementation that answered the registration in
\* regs[i] with 201 before, for the email and password of that registration
LoginAfter(i) ==
    /\ regs[i].status = 201
    /\ regs' = regs
    /\ last'.op = "login"
    /\ last'.impl = regs[i].impl
    /\ Has(last'.body, "password")
    /\ last'.body.email = regs[i].body.email
    /\ last'.body.password = regs[i].body.password

\* C16: a login with the email and password of a registration that was
\* answered 201 is answered 200 with a token whose userId is the id of the
\* user that registration created, and the protected endpoints take the token.
C16_LoginAfterRegister ==
    [][\A i \in DOMAIN regs :
         LoginAfter(i) =>
            /\ last'.status = 200
            /\ last'.token # <<>>
            /\ last'.token[1].userId = regs[i].token[1].userId
            /\ \E u \in users : /\ u.id = last'.token[1].userId
                                /\ u.email = RegisteredEmail(regs[i])
                                /\ u.name = Trim(regs[i].body.name)
            /\ authenticateToken(Bearer(last'.token[1]), JWT_SECRET, now).ok
            /\ nextAuth(Bearer(last'.token[1]), JWT_SECRET, now).ok]_vars

C16_Witness ==
    /\ last.op = "login" /\ last.impl = "next" /\ last.status = 200
    /\ \E i \in DOMAIN regs :
         /\ regs[i].status = 201 /\ regs[i].impl = "next"
         /\ regs[i].body.email = last.body.email
         /\ regs[i].body.password = last.body.password
         /\ last.body.email = <<"C", "@", "D", ".", "com">>
         /\ last.token[1].userId = UserIds[2]


\* the stored games of one id: rows of the table, entries of the array
Stored(id) ==
    IF variant = "database" THEN RowsById(id)
    ELSE {games[i] : i \in {j \in DOMAIN games : games[j].id = id}}

\* the game the request answered last was about
StoredLast == Stored(last.id)

\* C17: every update answered 200 leaves the game with an updatedAt strictly
\* greater than the one it had before the update.
C17_UpdateAdvancesUpdatedAt ==
    [][(last'.op = "update" /\ last'.status = 200 /\ last' # last) =>
          \A old \in Stored(last'.id) : \A new \in StoredLast' :
              new.updatedAt > old.updatedAt]_vars


\* every stored game: the rows of the table and the entries of the array
StoredGames == gamesTable \cup {games[i] : i \in DOMAIN games}

\* C18: every stored game has updatedAt >= createdAt, and a game that is
\* stored before and after a step has the createdAt it had.
C18_CreatedAtKept ==
    [][/\ \A g \in StoredGames : g.updatedAt >= g.createdAt
       /\ \A h \in StoredGames' :
            /\ h.updatedAt >= h.createdAt
            /\ \A g \in StoredGames : g.id = h.id => h.createdAt = g.createdAt]_vars

C18_Witness ==
    /\ last.op = "update" /\ last.status = 200
    /\ \E g \in Stored(last.id) :
         /\ g.updatedAt > g.createdAt
         /\ g.name = Trim(last.body.name)


\* C19: every response the server writes is a JSON envelope with a boolean
\* success, and with a non-empty error text when success is false.
C19_EnvelopeEverywhere ==
    last.op = "pipe" =>
        \A k \in DOMAIN last.responses :
            LET r == last.responses[k] IN
            /\ r.type = "json"
            /\ r.success \in {<<TRUE>>, <<FALSE>>}
            /\ r.success = <<FALSE>> => r.error # ""

\* C20: a request that has left the pipeline has been answered exactly
\* once, and when a layer outside the route handlers passed an error on, the
\* answer is 500 with the generic envelope.
C20_CatchAllAnswers ==
    (last.op = "pipe" /\ last.pc = "done") =>
        /\ Len(last.responses) = 1
        /\ last.failed =>
             last.responses[1] = Envelope(500, FALSE, "Internal server error")


\* the step in which the layer the request in flight stands before, pc, runs
LayerRuns(pc) == last.op = "pipe" /\ last.pc = pc /\ last' # last

\* C21: for every address, limiter counts each request under /api/, admits it
\* while fewer than 100 were counted in the window and answers every further
\* one 429 with the "too many requests" envelope; the counts of other
\* addresses are untouched, and the end of a window sets a count to 0.
C21_GlobalLimiter ==
    [][/\ (LayerRuns("limiter") /\ Under(<<"/", "api", "/">>, last.request.path)) =>
            LET c == last.request.ip IN
            /\ hits[c].limiter <= LimiterMax => hits'[c].limiter = hits[c].limiter + 1
            /\ \A d \in DOMAIN hits \ {c} : hits'[d] = hits[d]
            /\ IF hits[c].limiter < LimiterMax
               THEN last'.pc = "strictLimiter" /\ last'.responses = <<>>
               ELSE /\ last'.pc = "done"
                    /\ last'.responses = <<Envelope(429, FALSE,
                           "Too many requests, please try again later")>>
       /\ (last' = last /\ hits' # hits) =>
            \A c \in DOMAIN hits : hits'[c].limiter \in {hits[c].limiter, 0}]_vars

C21_Witness ==
    /\ last.op = "pipe" /\ last.pc = "done"
    /\ last.request.ip = Clients[1]
    /\ last.responses = <<Envelope(429, FALSE, "Too many requests, please try again later")>>
    /\ hits[Clients[1]].limiter = 0
    /\ hits[Clients[2]].limiter = 1

\* C22: a request under /api/games is counted by limiter whatever its
\* method, and limiter leaves the write count alone; strictLimiter counts it
\* exactly when its method is not GET, leaves the global count alone, admits
\* it while fewer than 20 were counted for its address in the window and
\* answers 429 otherwise; a GET passes strictLimiter uncounted.
C22_WriteLimiter ==
    [][LET c == last.request.ip
           q == last.request
       IN  /\ (LayerRuns("limiter") /\ Under(ApiGames, q.path)) =>
                /\ hits[c].limiter <= LimiterMax =>
                      hits'[c].limiter = hits[c].limiter + 1
                /\ hits'[c].strictLimiter = hits[c].strictLimiter
           /\ LayerRuns("strictLimiter") =>
                IF Under(ApiGames, q.path) /\ q.method # "GET"
                THEN /\ hits[c].strictLimiter <= StrictLimiterMax =>
                           hits'[c].strictLimiter = hits[c].strictLimiter + 1
                     /\ hits'[c].limiter = hits[c].limiter
                     /\ last'.pc = "json" <=> hits[c].strictLimiter < StrictLimiterMax
                     /\ last'.pc # "json" =>
                           (last'.pc = "done" /\ last'.responses[1].status = 429)
                ELSE /\ hits' = hits
                     /\ last'.pc = "json"]_vars

C22_Witness ==
    /\ last.op = "pipe" /\ last.pc = "done"
    /\ last.request.method = "POST"
    /\ last.responses = <<TooManyText>>
    /\ hits[last.request.ip].strictLimiter = StrictLimiterMax + 1
    /\ hits[last.request.ip].limiter < LimiterMax


\* the AUTHENTICATE step of the handler that answered q at hour t; the
\* in-memory handlers have none
Authenticated(q, t) ==
    IF q.impl = "express" THEN authenticateToken(q.headers, JWT_SECRET, t)
    ELSE IF q.impl = "next" THEN nextAuth(q.headers, JWT_SECRET, t)
    ELSE Allowed(<<>>)

\* the VALIDATE step fails on q: its payload, or its id where ids are checked
FailsValidation(q) ==
    \/ q.op \in {"create", "update"} /\ InvalidPayload(q.body)
    \/ q.op \in {"get", "update", "delete"} /\ q.impl # "memory" /\ ~idSchema(q.id)

\* C23: a request to a games handler that fails authentication is answered
\* with the authentication error whatever its payload, one that passes it
\* and fails validation is answered 400 whether or not its id names a
\* stored game, and in both cases the store is neither read nor written.
C23_StepOrder ==
    [][(last' # last /\ last'.op \in {"get", "create", "update", "delete"}) =>
          LET auth == Authenticated(last', now) IN
          /\ ~auth.ok =>
                /\ last'.status = auth.status /\ last'.error = auth.error
                /\ last'.reads = 0 /\ last'.writes = 0
          /\ (auth.ok /\ FailsValidation(last')) =>
                /\ last'.status = 400
                /\ last'.reads = 0 /\ last'.writes = 0]_vars


\* C24: without the signing key, every request to a protected games
\* endpoint that presents a token is answered 500 "Internal server error",
\* by the Express server and by the Next.js routes.
C24_MissingKeyIs500 ==
    (/\ ~JWT_SECRET
     /\ last.impl \in {"express", "next"}
     /\ last.op \in {"list", "get", "create", "update", "delete"}
     /\ HeaderToken(last.headers) # <<>>) =>
        /\ last.status = 500
        /\ last.error = "Internal server error"


\* two replies of one request: the same status, the same store afterwards
SameOutcome(e, n) == e.status = n.status /\ e.store = n.store

\* C25: in every state of the games table, every request to a games
\* endpoint gets the same status and leaves the same table whether the
\* Express server or the Next.js route handles it.
C25_SameFeatureSet ==
    variant = "database" =>
        /\ \A h \in Headers : SameOutcome(ExpressListGames(h), NextListGames(h))
        /\ \A q \in IdRequests :
             /\ SameOutcome(ExpressGetGame(q.headers, q.id), NextGetGame(q.headers, q.id))
             /\ SameOutcome(ExpressDeleteGame(q.headers, q.id),
                            NextDeleteGame(q.headers, q.id))
        /\ \A q \in BodyRequests :
             SameOutcome(ExpressPostGame(q.headers, q.body), NextPostGame(q.headers, q.body))
        /\ \A q \in PutRequests :
             SameOutcome(ExpressPutGame(q.headers, q.id, q.body),
                         NextPutGame(q.headers, q.id, q.body))


\* the login answered in this step names a well-formed email and a password,
\* and the users table holds no user of that email, or one of another password
LoginRefused ==
    /\ last'.op = "login" /\ last' # last
    /\ isEmail(Text(last'.body, "email"))
    /\ Text(last'.body, "password") # <<>>
    /\ \A u \in users :
         u.email = toLowerCase(last'.body.email) =>
             u.password # bcryptHash(last'.body.password)

\* C26: a login for an email of no user and a login with a wrong password
\* for a user get the same response, 401 "Invalid credentials" without a
\* token, and leave users and games as they were.
C26_LoginTellsNothing ==
    [][LoginRefused =>
          /\ last'.status = 401
          /\ last'.error = "Invalid credentials"
          /\ last'.token = <<>>
          /\ users' = users /\ gamesTable' = gamesTable /\ games' = games]_vars

C26_Witness ==
    /\ last.op = "login" /\ last.status = 401
    /\ last.body.email = <<"c", "@", "d", ".", "com">>
    /\ \E u \in users : u.email = last.body.email /\ u.password # bcryptHash(last.body.password)


\* C27: a register request answered with a status other than 201 adds no
\* user: every user added since the start belongs to a registration that
\* was answered 201.
C27_FailedRegisterAddsNothing ==
    \A u \in users \ {Alice} :
        \E i \in DOMAIN regs :
            regs[i].status = 201 /\ RegisteredEmail(regs[i]) = u.email


\* C28: a list response never holds more games than its totalItems, and
\* holds none when totalItems is 0, whatever is created or deleted while its
\* two queries are answered.
C28_DataWithinTotal ==
    (last.op = "list" /\ last.status = 200) =>
        /\ Len(last.data) <= last.meta.totalItems
        /\ last.meta.totalItems = 0 => last.data = <<>>


\* the stored games of the id the delete answered in this step names
Deleted == {g \in StoredGames : g.id = last'.id}

\* C29: a delete answered 200 removes the game of its id and nothing else, a
\* delete answered 404 leaves table and array as they were, and the ids of
\* the array stay pairwise distinct.
C29_DeleteFrame ==
    [][/\ (last' # last /\ last'.op = "delete" /\ last'.status = 200) =>
            /\ Deleted # {}
            /\ StoredGames' = StoredGames \ Deleted
            /\ Len(games') + Cardinality(gamesTable') =
                  Len(games) + Cardinality(gamesTable) - 1
       /\ (last' # last /\ last'.op = "delete" /\ last'.status = 404) =>
            /\ gamesTable' = gamesTable
            /\ games' = games
       /\ \A i, j \in DOMAIN games' : i # j => games'[i].id # games'[j].id]_vars

C29_Witness ==
    /\ last.op = "delete" /\ last.status = 200 /\ last.impl = "memory"
    /\ Len(games) = Len(SeedGames(TokenLifetime)) - 1
    /\ \A i \in DOMAIN games : games[i].id # last.id
    /\ \E i \in DOMAIN games : games[i].id = "2"

====
